---- MODULE Spec2Model ----
(***************************************************************************)
(* Model of the alert evaluation pipeline of the repository:               *)
(*   - the legacy evaluation job (Job, AlertEvaluatorEngine.handleRule and  *)
(*     processJob), driven by the synchronous evaluate commands;            *)
(*   - the unified-alerting evaluate/process endpoints                      *)
(*     (LogzioAlertingService.RouteEvaluateAlert / RouteProcessAlert).      *)
(***************************************************************************)
EXTENDS Integers, Sequences, FiniteSets, TLC

(***************************************************************************)
(* Bounds of the model.                                                    *)
(***************************************************************************)
\* Largest value of the wall clock (time stops advancing there).
MaxClock == 2
\* setting.AlertingMaxAttempts ranges over 0..MaxAttemptsSetting.
MaxAttemptsSetting == 1
\* setting.AlertingEvaluationTimeout, in clock ticks.
AlertingEvaluationTimeout == 1
\* setting.AlertingNotificationTimeout, in clock ticks.
AlertingNotificationTimeout == 1
\* The rules of the evaluation cycles have For in 0..MaxFor, in clock ticks.
MaxFor == 3
\* Consecutive evaluation cycles are 1..MaxGap ticks apart.
MaxGap == 3
\* Evaluation instant of the last cycle.
MaxFoldTime == 6

\* Concurrent callers of the bus handlers (HTTP requests are served in parallel).
Callers == {"c1", "c2"}

Nil == "nil"

\* The nil value of a pointer to a struct.
NilPointer == [nil |-> TRUE]

Min(a, b) == IF a <= b THEN a ELSE b

VARIABLES
    clock,            \* wall clock
    maxAttempts,      \* setting.AlertingMaxAttempts
    jpc,              \* position of each caller inside HandleEvaluateAlertCommand
    job,              \* the Job built by handleRule for each caller
    cancelChan,       \* handleRule's cancelChan (buffered, nobody receives)
    attemptChan,      \* handleRule's attemptChan
    alertCtx,         \* processJob's evaluation context.Context
    resultHandleCtx,  \* processJob's notification context.Context
    evalContext,      \* processJob's *EvalContext
    calls,            \* collaborator calls made by processJob, in order
    cmdResult,        \* cmd.Result of the evaluate command
    schedulerJobs     \* the ticking scheduler's bookkeeping: ids of the rules it holds a job for

jobVars == <<clock, maxAttempts, schedulerJobs, jpc, job, cancelChan, attemptChan, alertCtx,
             resultHandleCtx, evalContext, calls, cmdResult>>

(***************************************************************************)
(* Inputs: the alerts of the database the evaluate command is called with.  *)
(* Valid = FALSE stands for an alert NewRuleFromDBAlert rejects.            *)
(***************************************************************************)
DBAlerts ==
    { [Id |-> 1, Frequency |-> 0,  State |-> "ok",       ExecutionErrorState |-> "alerting",   NoDataState |-> "no_data",    Valid |-> TRUE],
      [Id |-> 2, Frequency |-> 2,  State |-> "alerting", ExecutionErrorState |-> "keep_state", NoDataState |-> "keep_state", Valid |-> TRUE],
      [Id |-> 3, Frequency |-> 1,  State |-> "ok",       ExecutionErrorState |-> "alerting",   NoDataState |-> "no_data",    Valid |-> FALSE] }

\* Outcomes of evalHandler.Eval as processJob reads them: Error, Firing, NoDataFound.
EvalOutcomes ==
    { [Error |-> Nil,     Firing |-> TRUE,  NoDataFound |-> FALSE],
      [Error |-> Nil,     Firing |-> FALSE, NoDataFound |-> FALSE],
      [Error |-> Nil,     Firing |-> FALSE, NoDataFound |-> TRUE],
      [Error |-> "error", Firing |-> FALSE, NoDataFound |-> FALSE] }

\* Eval under an evaluation context whose deadline has passed.
EvalDeadlineExceeded == [Error |-> "context deadline exceeded", Firing |-> FALSE, NoDataFound |-> FALSE]

\* Errors resultHandler.handle may return.
HandleOutcomes == {Nil, "context canceled", "context deadline exceeded", "error"}

(***************************************************************************)
(* context.Context                                                         *)
(***************************************************************************)
NoDeadline == -1
Background == [created |-> 0, deadline |-> NoDeadline]

\* context.WithTimeout(parent, d) called at time now: the deadline is the
\* earlier of the parent's deadline and now + d.
WithTimeout(parent, now, d) ==
    [created |-> now,
     deadline |-> IF parent.deadline = NoDeadline THEN now + d
                  ELSE Min(parent.deadline, now + d)]

\* ctx.Done() is closed at time now.
Done(ctx, now) == ctx.deadline # NoDeadline /\ now >= ctx.deadline

(***************************************************************************)
(* Job (GetRunning / SetRunning)                                           *)
(***************************************************************************)
\* A pointer is the empty sequence (nil) or a one-element sequence.
NewJob == [running |-> FALSE, Rule |-> Nil, Offset |-> 0, Result |-> <<>>]

GetRunning(j) == j.running

SetRunning(j, b) == [j EXCEPT !.running = b]

\* NewRuleFromDBAlert: the Rule built from a valid alert.
NewRuleFromDBAlert(alert) ==
    [ID |-> alert.Id, Frequency |-> alert.Frequency, State |-> alert.State,
     ExecutionErrorState |-> alert.ExecutionErrorState, NoDataState |-> alert.NoDataState]

\* handleRule's job offset: floor(float64(Frequency*1000)/1000), 1 when that is 0.
JobOffset(rule) ==
    LET offset == rule.Frequency * 1000
        o == offset \div 1000
    IN IF o = 0 THEN 1 ELSE o

\* EvalContext.GetNewState: the rule's state after the evaluation.
GetNewState(ec) ==
    IF ec.Error # Nil
    THEN IF ec.Rule.ExecutionErrorState = "keep_state" THEN ec.PrevAlertState
         ELSE ec.Rule.ExecutionErrorState
    ELSE IF ec.Firing THEN "alerting"
    ELSE IF ec.NoDataFound
    THEN IF ec.Rule.NoDataState = "keep_state" THEN ec.PrevAlertState
         ELSE ec.Rule.NoDataState
    ELSE "ok"

NewEvalContext(ctx, rule) ==
    [Ctx |-> ctx, Rule |-> rule, PrevAlertState |-> rule.State,
     Error |-> Nil, Firing |-> FALSE, NoDataFound |-> FALSE]

ChanCap == maxAttempts * 2

\* The rules the ticking scheduler holds a job for when the commands arrive:
\* alert 2 is scheduled, alert 1 is only evaluated on demand.
ScheduledRuleIds == {2}

\* No command has been issued; the setting is one of attempts.
InitJob(attempts) ==
    /\ clock = 0
    /\ schedulerJobs = ScheduledRuleIds
    /\ maxAttempts \in attempts
    /\ jpc = [c \in Callers |-> "idle"]
    /\ job = [c \in Callers |-> NilPointer]
    /\ cancelChan = [c \in Callers |-> <<>>]
    /\ attemptChan = [c \in Callers |-> NilPointer]
    /\ alertCtx = [c \in Callers |-> NilPointer]
    /\ resultHandleCtx = [c \in Callers |-> NilPointer]
    /\ evalContext = [c \in Callers |-> NilPointer]
    /\ calls = [c \in Callers |-> <<>>]
    /\ cmdResult = [c \in Callers |-> <<>>]

\* Time passes.
Tick ==
    /\ clock < MaxClock
    /\ clock' = clock + 1
    /\ UNCHANGED <<maxAttempts, schedulerJobs, jpc, job, cancelChan, attemptChan, alertCtx,
                   resultHandleCtx, evalContext, calls, cmdResult>>

\* Variant: the job is also entered in the scheduler's bookkeeping.
handleRuleRegistersJob(c, rule) ==
    /\ job' = [job EXCEPT ![c] =
                 [SetRunning(NewJob, FALSE) EXCEPT !.Rule = rule, !.Offset = JobOffset(rule)]]
    /\ schedulerJobs' = schedulerJobs \cup {rule.ID}
    /\ cancelChan' = [cancelChan EXCEPT ![c] = <<>>]
    /\ attemptChan' = [attemptChan EXCEPT ![c] = [buf |-> <<1>>, closed |-> FALSE]]
    /\ alertCtx' = [alertCtx EXCEPT ![c] = WithTimeout(Background, clock, AlertingEvaluationTimeout)]
    /\ jpc' = [jpc EXCEPT ![c] = "sendCancelFn"]
    /\ UNCHANGED <<clock, maxAttempts, resultHandleCtx, evalContext, calls, cmdResult>>

\* handleRule up to the call of processJob, and processJob's first line.
handleRule(c, rule) ==
    /\ job' = [job EXCEPT ![c] =
                 [SetRunning(NewJob, FALSE) EXCEPT !.Rule = rule, !.Offset = JobOffset(rule)]]
    /\ cancelChan' = [cancelChan EXCEPT ![c] = <<>>]
    /\ attemptChan' = [attemptChan EXCEPT ![c] = [buf |-> <<1>>, closed |-> FALSE]]
    /\ alertCtx' = [alertCtx EXCEPT ![c] = WithTimeout(Background, clock, AlertingEvaluationTimeout)]
    /\ jpc' = [jpc EXCEPT ![c] = "sendCancelFn"]
    /\ UNCHANGED <<clock, maxAttempts, schedulerJobs, resultHandleCtx, evalContext, calls, cmdResult>>

\* HandleEvaluateAlertCommand: an alert that cannot be built returns nil with
\* no result; otherwise the rule is handed to handleRule.
HandleEvaluateAlertCommand(c, alert) ==
    /\ jpc[c] = "idle"
    /\ IF alert.Valid
       THEN handleRule(c, NewRuleFromDBAlert(alert))
       ELSE /\ jpc' = [jpc EXCEPT ![c] = "done"]
            /\ cmdResult' = [cmdResult EXCEPT ![c] = <<>>]
            /\ UNCHANGED <<clock, maxAttempts, schedulerJobs, job, cancelChan, attemptChan, alertCtx,
                           resultHandleCtx, evalContext, calls>>

\* The ids the by-id command is called with: those of the database and one
\* that no alert has.
AlertIds == {alert.Id : alert \in DBAlerts} \cup {0}

\* ruleReader.fetchOne: the rule of the alert with the id, nil when the alert
\* cannot be loaded or built.
fetchOne(alertId) ==
    LET found == {alert \in DBAlerts : alert.Id = alertId /\ alert.Valid}
    IN IF found = {} THEN <<>> ELSE <<NewRuleFromDBAlert(CHOOSE alert \in found : TRUE)>>

\* HandleEvaluateAlertByIdCommand: a rule that cannot be found returns nil
\* with no result; otherwise the rule is handed to handleRule.
HandleEvaluateAlertByIdCommand(c, alertId) ==
    /\ jpc[c] = "idle"
    /\ IF fetchOne(alertId) # <<>>
       THEN handleRule(c, fetchOne(alertId)[1])
       ELSE /\ jpc' = [jpc EXCEPT ![c] = "done"]
            /\ cmdResult' = [cmdResult EXCEPT ![c] = <<>>]
            /\ UNCHANGED <<clock, maxAttempts, schedulerJobs, job, cancelChan, attemptChan, alertCtx,
                           resultHandleCtx, evalContext, calls>>

\* processJob: cancelChan <- cancelFn (blocks while the buffer is full), then
\* the evaluation context is built on alertCtx.
processJobSendCancelFn(c) ==
    /\ jpc[c] = "sendCancelFn"
    /\ Len(cancelChan[c]) < ChanCap
    /\ cancelChan' = [cancelChan EXCEPT ![c] = Append(@, "cancelFn")]
    /\ evalContext' = [evalContext EXCEPT ![c] = NewEvalContext(alertCtx[c], job[c].Rule)]
    /\ jpc' = [jpc EXCEPT ![c] = "Eval"]
    /\ UNCHANGED <<clock, maxAttempts, schedulerJobs, job, attemptChan, alertCtx, resultHandleCtx,
                   calls, cmdResult>>

\* Variant: the notification context derived from the evaluation context.
NotificationContextNested(c) == WithTimeout(alertCtx[c], clock, AlertingNotificationTimeout)

\* The context of the notification phase.
NotificationContext(c) == WithTimeout(Background, clock, AlertingNotificationTimeout)

\* Variant: processJob returns right after a failed evaluation.
EvalReturnOnError(c) ==
    /\ jpc[c] = "Eval"
    /\ \E out \in (IF Done(evalContext[c].Ctx, clock) THEN {EvalDeadlineExceeded} ELSE EvalOutcomes) :
         /\ evalContext' = [evalContext EXCEPT ![c] =
                              [@ EXCEPT !.Error = out.Error, !.Firing = out.Firing,
                                        !.NoDataFound = out.NoDataFound]]
         /\ IF out.Error # Nil
            THEN /\ jpc' = [jpc EXCEPT ![c] = "done"]
                 /\ UNCHANGED resultHandleCtx
            ELSE /\ jpc' = [jpc EXCEPT ![c] = "sendResultHandleCancelFn"]
                 /\ resultHandleCtx' = [resultHandleCtx EXCEPT ![c] = NotificationContext(c)]
    /\ calls' = [calls EXCEPT ![c] = Append(@, "Eval")]
    /\ UNCHANGED <<clock, maxAttempts, schedulerJobs, job, cancelChan, attemptChan, alertCtx, cmdResult>>

\* Variant: a failed evaluation is tried again, once.
EvalRetriesOnError(c) ==
    /\ jpc[c] = "Eval"
    /\ \E out \in (IF Done(evalContext[c].Ctx, clock) THEN {EvalDeadlineExceeded} ELSE EvalOutcomes) :
         /\ evalContext' = [evalContext EXCEPT ![c] =
                              [@ EXCEPT !.Error = out.Error, !.Firing = out.Firing,
                                        !.NoDataFound = out.NoDataFound]]
         /\ IF out.Error # Nil /\ calls[c] = <<>>
            THEN /\ jpc' = [jpc EXCEPT ![c] = "Eval"]
                 /\ UNCHANGED resultHandleCtx
            ELSE /\ jpc' = [jpc EXCEPT ![c] = "sendResultHandleCancelFn"]
                 /\ resultHandleCtx' = [resultHandleCtx EXCEPT ![c] = NotificationContext(c)]
    /\ calls' = [calls EXCEPT ![c] = Append(@, "Eval")]
    /\ UNCHANGED <<clock, maxAttempts, schedulerJobs, job, cancelChan, attemptChan, alertCtx, cmdResult>>

\* Variant: the evaluator ignores the cancellation of its context and never
\* returns once the deadline has passed.
EvalIgnoresCancellation(c) ==
    /\ jpc[c] = "Eval"
    /\ ~Done(evalContext[c].Ctx, clock)
    /\ \E out \in EvalOutcomes :
         evalContext' = [evalContext EXCEPT ![c] =
                           [@ EXCEPT !.Error = out.Error, !.Firing = out.Firing,
                                     !.NoDataFound = out.NoDataFound]]
    /\ calls' = [calls EXCEPT ![c] = Append(@, "Eval")]
    /\ resultHandleCtx' = [resultHandleCtx EXCEPT ![c] = NotificationContext(c)]
    /\ jpc' = [jpc EXCEPT ![c] = "sendResultHandleCancelFn"]
    /\ UNCHANGED <<clock, maxAttempts, schedulerJobs, job, cancelChan, attemptChan, alertCtx, cmdResult>>

\* e.evalHandler.Eval(evalContext) returns: with any outcome while the
\* evaluation context is live, with the context's error once it is done.
\* processJob then traces the outcome and creates the notification context.
Eval(c) ==
    /\ jpc[c] = "Eval"
    /\ \E out \in (IF Done(evalContext[c].Ctx, clock) THEN {EvalDeadlineExceeded} ELSE EvalOutcomes) :
         evalContext' = [evalContext EXCEPT ![c] =
                           [@ EXCEPT !.Error = out.Error, !.Firing = out.Firing,
                                     !.NoDataFound = out.NoDataFound]]
    /\ calls' = [calls EXCEPT ![c] = Append(@, "Eval")]
    /\ resultHandleCtx' = [resultHandleCtx EXCEPT ![c] = NotificationContext(c)]
    /\ jpc' = [jpc EXCEPT ![c] = "sendResultHandleCancelFn"]
    /\ UNCHANGED <<clock, maxAttempts, schedulerJobs, job, cancelChan, attemptChan, alertCtx, cmdResult>>

\* cancelChan <- resultHandleCancelFn, then the evaluation context is switched
\* to the notification context and the rule's new state is computed.
processJobSendResultHandleCancelFn(c) ==
    /\ jpc[c] = "sendResultHandleCancelFn"
    /\ Len(cancelChan[c]) < ChanCap
    /\ cancelChan' = [cancelChan EXCEPT ![c] = Append(@, "resultHandleCancelFn")]
    /\ evalContext' = [evalContext EXCEPT ![c] =
                         [@ EXCEPT !.Ctx = resultHandleCtx[c],
                                   !.Rule.State = GetNewState(evalContext[c])]]
    /\ calls' = [calls EXCEPT ![c] = Append(@, "GetNewState")]
    /\ jpc' = [jpc EXCEPT ![c] = "handle"]
    /\ UNCHANGED <<clock, maxAttempts, schedulerJobs, job, attemptChan, alertCtx, resultHandleCtx,
                   cmdResult>>

\* e.resultHandler.handle(evalContext) returns; its error is only logged.
handle(c) ==
    /\ jpc[c] = "handle"
    /\ \E err \in HandleOutcomes :
         calls' = [calls EXCEPT ![c] = Append(@, IF err = Nil THEN "handle" ELSE "handle failed")]
    /\ jpc' = [jpc EXCEPT ![c] = "handled"]
    /\ UNCHANGED <<clock, maxAttempts, schedulerJobs, job, cancelChan, attemptChan, alertCtx,
                   resultHandleCtx, evalContext, cmdResult>>

\* processJob's end (job.Result, close(attemptChan)), handleRule's return of
\* job.Result and the command's cmd.Result.
processJobEnd(c) ==
    /\ jpc[c] = "handled"
    /\ job' = [job EXCEPT ![c] = [@ EXCEPT !.Result = <<evalContext[c]>>]]
    /\ attemptChan' = [attemptChan EXCEPT ![c] = [@ EXCEPT !.closed = TRUE]]
    /\ cmdResult' = [cmdResult EXCEPT ![c] = <<evalContext[c]>>]
    /\ jpc' = [jpc EXCEPT ![c] = "done"]
    /\ UNCHANGED <<clock, maxAttempts, schedulerJobs, cancelChan, alertCtx, resultHandleCtx,
                   evalContext, calls>>

\* The command has returned; the caller issues its next command later.
Return(c) ==
    /\ jpc[c] = "done"
    /\ jpc' = [jpc EXCEPT ![c] = "idle"]
    /\ job' = [job EXCEPT ![c] = NilPointer]
    /\ cancelChan' = [cancelChan EXCEPT ![c] = <<>>]
    /\ attemptChan' = [attemptChan EXCEPT ![c] = NilPointer]
    /\ alertCtx' = [alertCtx EXCEPT ![c] = NilPointer]
    /\ resultHandleCtx' = [resultHandleCtx EXCEPT ![c] = NilPointer]
    /\ evalContext' = [evalContext EXCEPT ![c] = NilPointer]
    /\ calls' = [calls EXCEPT ![c] = <<>>]
    /\ cmdResult' = [cmdResult EXCEPT ![c] = <<>>]
    /\ UNCHANGED <<clock, maxAttempts, schedulerJobs>>


(***************************************************************************)
(* The evaluate and process endpoints (LogzioAlertingService).             *)
(***************************************************************************)
\* Concurrent HTTP requests.
Requests == {"r1", "r2"}

StatusOK == 200
StatusBadRequest == 400
StatusInternalServerError == 500

EvaluationErrorRefIdKey == "REF_ID"
QueryErrorType == "QUERY_ERROR"
OtherErrorType == "OTHER"

\* eval.State
Normal == 0
Alerting == 1
Pending == 2
NoData == 3
Error == 4

\* eval.State.String()
StateString(st) == <<"Normal", "Alerting", "Pending", "NoData", "Error">>[st + 1]

MapSeq(seq, Op(_)) == [i \in 1..Len(seq) |-> Op(seq[i])]

VARIABLES
    rpc,              \* position of each request inside its route
    request,          \* the request body
    condEval,         \* what Evaluator.ConditionEval returned to the request
    processedStates,  \* RouteProcessAlert's processedStates
    saveIdx,          \* saveAlertStates' position in its loop over the states
    saveLog,          \* SaveAlertInstance commands issued by the request, with their outcome
    postableAlerts,   \* RouteProcessAlert's alerts
    response,         \* the response returned
    lookups,          \* errors returned by the request's calls of AlertmanagerFor, in order
    puts,             \* errors returned by the request's calls of PutAlerts, in order
    stateCache,       \* the state manager's states, by (OrgID, RuleUID, labels)
    instanceStore,    \* the rows of the instance store
    notifier          \* the alerts each organization's alertmanager has received

apiVars == <<rpc, request, condEval, processedStates, saveIdx, saveLog, postableAlerts,
             response, lookups, puts, stateCache, instanceStore, notifier>>

\* The alert rules the requests carry (apimodels.ApiAlertRule). The rules of
\* organizations 1 and 2 have the same UID.
ApiAlertRules ==
    { [ID |-> 1, OrgID |-> 1, UID |-> "u1", For |-> 0, NoDataState |-> "NoData", ExecErrState |-> "Alerting"],
      [ID |-> 2, OrgID |-> 2, UID |-> "u1", For |-> 1, NoDataState |-> "NoData", ExecErrState |-> "KeepLastState"],
      [ID |-> 3, OrgID |-> 3, UID |-> "u3", For |-> 0, NoDataState |-> "OK", ExecErrState |-> "Error"] }

OrgIDs == {rule.OrgID : rule \in ApiAlertRules}

\* The organizations MultiOrgAlertmanager holds an alertmanager for.
AlertmanagerOrgs == {1, 2}

\* Errors of the evaluator: expr.QueryError carries the reference id.
QueryError == [Query |-> TRUE, RefID |-> "A", Err |-> "query failed"]
QueryErrorB == [Query |-> TRUE, RefID |-> "B", Err |-> "query timed out"]
OtherError == [Query |-> FALSE, RefID |-> "", Err |-> "evaluation failed"]

\* eval.NumberValueCapture
Capture == [Var |-> "B", Labels |-> "host=x", Value |-> <<7>>]
\* A capture whose Value pointer is nil.
CaptureNoValue == [Var |-> "C", Labels |-> "", Value |-> <<>>]

\* eval.Result. A map is a set of <<key, value>> pairs; a nil value is <<>>.
EvalResult(instance, st, at, values, err) ==
    [Instance |-> instance, State |-> st, EvaluatedAt |-> at, EvaluationDuration |-> 1,
     EvaluationString |-> "[ var='B' value=7 ]", Values |-> values, Error |-> err]

\* The result sets of one evaluation.
EvalResultLists ==
    { <<>>,
      <<EvalResult("a", Alerting, 1, <<{<<"B", Capture>>}>>, <<>>)>>,
      <<EvalResult("a", Normal, 2, <<>>, <<>>), EvalResult("b", Alerting, 2, <<{}>>, <<>>)>>,
      <<EvalResult("a", Error, 3, <<>>, <<QueryError>>), EvalResult("b", NoData, 3, <<>>, <<>>)>>,
      <<EvalResult("b", Error, 3, <<>>, <<OtherError>>)>> }

\* What Evaluator.ConditionEval may return: results, or an error.
ConditionEvalOutcomes ==
    {[results |-> l, err |-> <<>>] : l \in EvalResultLists}
        \cup {[results |-> <<>>, err |-> <<"failed to execute conditions">>]}

valueNumberCaptureToApi(nvc) == [Var |-> nvc.Var, Labels |-> nvc.Labels, Value |-> nvc.Value]

apiToNumberValueCapture(api) == [Var |-> api.Var, Labels |-> api.Labels, Value |-> api.Value]

\* Variant: every error is reported as an error of the other kind.
evaluationResultsToApiAllOther(evalResult) ==
    [Instance |-> evalResult.Instance,
     State |-> evalResult.State,
     StateName |-> StateString(evalResult.State),
     EvaluatedAt |-> evalResult.EvaluatedAt,
     EvaluationDuration |-> evalResult.EvaluationDuration,
     EvaluationString |-> evalResult.EvaluationString,
     Values |-> IF evalResult.Values # <<>>
                THEN <<{<<kv[1], valueNumberCaptureToApi(kv[2])>> : kv \in evalResult.Values[1]}>>
                ELSE <<>>,
     Error |-> IF evalResult.Error # <<>>
               THEN <<[Type |-> OtherErrorType, Message |-> evalResult.Error[1].Err,
                       Metadata |-> {}]>>
               ELSE <<>>]

evaluationResultsToApi(evalResult) ==
    [Instance |-> evalResult.Instance,
     State |-> evalResult.State,
     StateName |-> StateString(evalResult.State),
     EvaluatedAt |-> evalResult.EvaluatedAt,
     EvaluationDuration |-> evalResult.EvaluationDuration,
     EvaluationString |-> evalResult.EvaluationString,
     Values |-> IF evalResult.Values # <<>>
                THEN <<{<<kv[1], valueNumberCaptureToApi(kv[2])>> : kv \in evalResult.Values[1]}>>
                ELSE <<>>,
     Error |-> IF evalResult.Error # <<>>
               THEN IF evalResult.Error[1].Query
                    THEN <<[Type |-> QueryErrorType, Message |-> evalResult.Error[1].Err,
                            Metadata |-> {<<EvaluationErrorRefIdKey, evalResult.Error[1].RefID>>}]>>
                    ELSE <<[Type |-> OtherErrorType, Message |-> evalResult.Error[1].Err,
                            Metadata |-> {}]>>
               ELSE <<>>]

\* Variant: the captured values are not carried over.
apiToEvaluationResultNoValues(apiEvalResult) ==
    [Instance |-> apiEvalResult.Instance,
     State |-> apiEvalResult.State,
     EvaluatedAt |-> apiEvalResult.EvaluatedAt,
     EvaluationDuration |-> apiEvalResult.EvaluationDuration,
     EvaluationString |-> "",
     Values |-> <<>>,
     Error |-> <<>>]

apiToEvaluationResult(apiEvalResult) ==
    [Instance |-> apiEvalResult.Instance,
     State |-> apiEvalResult.State,
     EvaluatedAt |-> apiEvalResult.EvaluatedAt,
     EvaluationDuration |-> apiEvalResult.EvaluationDuration,
     EvaluationString |-> "",
     Values |-> IF apiEvalResult.Values # <<>>
                THEN <<{<<kv[1], apiToNumberValueCapture(kv[2])>> : kv \in apiEvalResult.Values[1]}>>
                ELSE <<>>,
     Error |-> <<>>]

\* Variant: the rule's For is not carried over.
apiRuleToDbAlertRuleNoFor(api) ==
    [ID |-> api.ID, OrgID |-> api.OrgID, UID |-> api.UID, For |-> 0,
     NoDataState |-> api.NoDataState, ExecErrState |-> api.ExecErrState]

apiRuleToDbAlertRule(api) ==
    [ID |-> api.ID, OrgID |-> api.OrgID, UID |-> api.UID, For |-> api.For,
     NoDataState |-> api.NoDataState, ExecErrState |-> api.ExecErrState]

\* The bodies of the process requests.
ApiEvalResultLists == {MapSeq(l, evaluationResultsToApi) : l \in EvalResultLists}

(***************************************************************************)
(* State manager: the fold of evaluation results into instance states.     *)
(***************************************************************************)
StateKey(rule, result) == <<rule.OrgID, rule.UID, result.Instance>>

\* The state of the instance before the result: the cached one, or a new
\* instance starting in Normal.
getOrCreate(cache, rule, result) ==
    IF StateKey(rule, result) \in DOMAIN cache
    THEN cache[StateKey(rule, result)]
    ELSE [OrgID |-> rule.OrgID, AlertRuleUID |-> rule.UID, Labels |-> result.Instance,
          State |-> Normal, StartsAt |-> result.EvaluatedAt, EndsAt |-> result.EvaluatedAt,
          LastEvaluationTime |-> result.EvaluatedAt]

resultNormal(st, at) ==
    IF st.State = Normal THEN st
    ELSE [st EXCEPT !.State = Normal, !.StartsAt = at, !.EndsAt = at]

resultAlerting(st, rule, at) ==
    IF st.State = Alerting THEN [st EXCEPT !.EndsAt = at]
    ELSE IF st.State = Pending
    THEN IF at - st.StartsAt >= rule.For
         THEN [st EXCEPT !.State = Alerting, !.StartsAt = at, !.EndsAt = at]
         ELSE [st EXCEPT !.EndsAt = at]
    ELSE IF rule.For = 0
    THEN [st EXCEPT !.State = Alerting, !.StartsAt = at, !.EndsAt = at]
    ELSE [st EXCEPT !.State = Pending, !.StartsAt = at, !.EndsAt = at]

\* A result of state lit, reported as that literal state.
resultLiteral(st, lit, at) ==
    IF st.State = lit THEN [st EXCEPT !.EndsAt = at]
    ELSE [st EXCEPT !.State = lit, !.StartsAt = at, !.EndsAt = at]

\* Error and NoData results follow the rule's policy.
resultPolicy(st, rule, policy, lit, at) ==
    IF policy = "KeepLastState" THEN st
    ELSE IF policy = "Alerting" THEN resultAlerting(st, rule, at)
    ELSE IF policy = "OK" THEN resultNormal(st, at)
    ELSE resultLiteral(st, lit, at)

setNextState(prev, rule, result) ==
    LET st == [prev EXCEPT !.LastEvaluationTime = result.EvaluatedAt]
        at == result.EvaluatedAt
    IN IF result.State = Normal THEN resultNormal(st, at)
       ELSE IF result.State = Alerting THEN resultAlerting(st, rule, at)
       ELSE IF result.State = Error THEN resultPolicy(st, rule, rule.ExecErrState, Error, at)
       ELSE IF result.State = NoData THEN resultPolicy(st, rule, rule.NoDataState, NoData, at)
       ELSE st

\* StateManager.ProcessEvalResults: one state per result, in order; the cache
\* holds the new state of every instance.
RECURSIVE ProcessEvalResults(_, _, _)
ProcessEvalResults(cache, rule, results) ==
    IF results = <<>> THEN [cache |-> cache, states |-> <<>>]
    ELSE LET new == setNextState(getOrCreate(cache, rule, Head(results)), rule, Head(results))
             key == StateKey(rule, Head(results))
             cache1 == [k \in DOMAIN cache \cup {key} |-> IF k = key THEN new ELSE cache[k]]
             rest == ProcessEvalResults(cache1, rule, Tail(results))
         IN [cache |-> rest.cache, states |-> <<new>> \o rest.states]

\* schedule.FromAlertStateToPostableAlerts: one alert per state that is
\* neither Normal nor Pending; the generator URL is built from the application URL.
AppUrl == "https://app/"

stateToPostableAlert(st) ==
    [RuleUID |-> st.AlertRuleUID, Labels |-> st.Labels, StartsAt |-> st.StartsAt,
     EndsAt |-> st.EndsAt, GeneratorURL |-> <<AppUrl, "alerting", st.AlertRuleUID, "edit">>]

NeedsSending(st) == st.State \notin {Normal, Pending}

FromAlertStateToPostableAlerts(states) ==
    MapSeq(SelectSeq(states, NeedsSending), stateToPostableAlert)

\* MultiOrgAlertmanager.AlertmanagerFor: the errors it may return for an organization.
ErrNoAlertmanagerForOrg == "Alertmanager does not exist for this organization"
ErrAlertmanagerNotReady == "Alertmanager is not ready yet"

AlertmanagerForOutcomes(orgID) ==
    IF orgID \in AlertmanagerOrgs THEN {Nil, ErrAlertmanagerNotReady}
    ELSE {ErrNoAlertmanagerForOrg}

\* Errors of PutAlerts.
PutAlertsOutcomes == {Nil, "failed to put alerts"}

(***************************************************************************)
(* The routes.                                                             *)
(***************************************************************************)
InitApi ==
    /\ rpc = [r \in Requests |-> "idle"]
    /\ request = [r \in Requests |-> Nil]
    /\ condEval = [r \in Requests |-> Nil]
    /\ processedStates = [r \in Requests |-> <<>>]
    /\ saveIdx = [r \in Requests |-> 0]
    /\ saveLog = [r \in Requests |-> <<>>]
    /\ postableAlerts = [r \in Requests |-> <<>>]
    /\ response = [r \in Requests |-> Nil]
    /\ lookups = [r \in Requests |-> <<>>]
    /\ puts = [r \in Requests |-> <<>>]
    /\ stateCache = <<>>
    /\ instanceStore = {}
    /\ notifier = [o \in OrgIDs |-> <<>>]

ErrorResponse(status, message, err) == [status |-> status, message |-> message, err |-> err]

JSONStreaming(status, body) == [status |-> status, body |-> body]

\* RouteEvaluateAlert up to the call of the evaluator.
RouteEvaluateAlert(r, evalRequest) ==
    /\ rpc[r] = "idle"
    /\ request' = [request EXCEPT ![r] =
                     [route |-> "evaluate", AlertRule |-> apiRuleToDbAlertRule(evalRequest.AlertRule)]]
    /\ rpc' = [rpc EXCEPT ![r] = "ConditionEval"]
    /\ UNCHANGED <<condEval, processedStates, saveIdx, saveLog, postableAlerts, response,
                   lookups, puts, stateCache, instanceStore, notifier>>

\* The response RouteEvaluateAlert builds from what the evaluator returned.
EvaluateResponse(out) ==
    IF out.err # <<>>
    THEN ErrorResponse(StatusInternalServerError, "Failed to evaluate conditions", out.err[1])
    ELSE JSONStreaming(StatusOK, MapSeq(out.results, evaluationResultsToApi))

\* Evaluator.ConditionEval returns and RouteEvaluateAlert answers.
ConditionEval(r) ==
    /\ rpc[r] = "ConditionEval"
    /\ \E out \in ConditionEvalOutcomes :
         /\ condEval' = [condEval EXCEPT ![r] = out]
         /\ response' = [response EXCEPT ![r] = EvaluateResponse(out)]
    /\ rpc' = [rpc EXCEPT ![r] = "done"]
    /\ UNCHANGED <<request, processedStates, saveIdx, saveLog, postableAlerts,
                   lookups, puts, stateCache, instanceStore, notifier>>

\* Variant: the alerts are dispatched without the states being saved first.
RouteProcessAlertNoSave(r, req) ==
    /\ rpc[r] = "idle"
    /\ LET alertRule == apiRuleToDbAlertRule(req.AlertRule)
           evalResults == MapSeq(req.EvaluationResults, apiToEvaluationResult)
           processed == ProcessEvalResults(stateCache, alertRule, evalResults)
       IN /\ request' = [request EXCEPT ![r] =
                           [route |-> "process", AlertRule |-> alertRule,
                            EvaluationResults |-> req.EvaluationResults]]
          /\ stateCache' = processed.cache
          /\ processedStates' = [processedStates EXCEPT ![r] = processed.states]
          /\ saveIdx' = [saveIdx EXCEPT ![r] = Len(processed.states) + 1]
    /\ rpc' = [rpc EXCEPT ![r] = "saveAlertStates"]
    /\ UNCHANGED <<condEval, saveLog, postableAlerts, response, lookups, puts,
                   instanceStore, notifier>>

\* RouteProcessAlert up to the call of saveAlertStates: the request is
\* converted and the state manager folds the results.
RouteProcessAlert(r, req) ==
    /\ rpc[r] = "idle"
    /\ LET alertRule == apiRuleToDbAlertRule(req.AlertRule)
           evalResults == MapSeq(req.EvaluationResults, apiToEvaluationResult)
           processed == ProcessEvalResults(stateCache, alertRule, evalResults)
       IN /\ request' = [request EXCEPT ![r] =
                           [route |-> "process", AlertRule |-> alertRule,
                            EvaluationResults |-> req.EvaluationResults]]
          /\ stateCache' = processed.cache
          /\ processedStates' = [processedStates EXCEPT ![r] = processed.states]
    /\ saveIdx' = [saveIdx EXCEPT ![r] = 1]
    /\ rpc' = [rpc EXCEPT ![r] = "saveAlertStates"]
    /\ UNCHANGED <<condEval, saveLog, postableAlerts, response, lookups, puts,
                   instanceStore, notifier>>

\* Variant: the command does not carry the organization of the state.
SaveAlertInstanceCommandNoOrg(st) ==
    [RuleOrgID |-> 0, RuleUID |-> st.AlertRuleUID, Labels |-> st.Labels,
     State |-> StateString(st.State), LastEvalTime |-> st.LastEvaluationTime,
     CurrentStateSince |-> st.StartsAt, CurrentStateEnd |-> st.EndsAt]

\* Variant: the command carries the start of the state as its evaluation time.
SaveAlertInstanceCommandStaleEvalTime(st) ==
    [RuleOrgID |-> st.OrgID, RuleUID |-> st.AlertRuleUID, Labels |-> st.Labels,
     State |-> StateString(st.State), LastEvalTime |-> st.StartsAt,
     CurrentStateSince |-> st.StartsAt, CurrentStateEnd |-> st.EndsAt]

\* The command saveAlertStates builds for a state.
SaveAlertInstanceCommand(st) ==
    [RuleOrgID |-> st.OrgID, RuleUID |-> st.AlertRuleUID, Labels |-> st.Labels,
     State |-> StateString(st.State), LastEvalTime |-> st.LastEvaluationTime,
     CurrentStateSince |-> st.StartsAt, CurrentStateEnd |-> st.EndsAt]

\* The key of a row of the instance store.
InstanceKey(row) == <<row.RuleOrgID, row.RuleUID, row.Labels>>

\* InstanceStore.SaveAlertInstance, when it succeeds: an upsert, the row of
\* the command's key is replaced by the command's, or added when there is none.
SaveAlertInstance(store, cmd) ==
    {row \in store : InstanceKey(row) # InstanceKey(cmd)} \cup {cmd}

\* Variant: the loop ends at the first failed write.
saveAlertStatesAbortOnError(r) ==
    /\ rpc[r] = "saveAlertStates"
    /\ saveIdx[r] <= Len(processedStates[r])
    /\ LET cmd == SaveAlertInstanceCommand(processedStates[r][saveIdx[r]])
       IN \E ok \in BOOLEAN :
            /\ saveLog' = [saveLog EXCEPT ![r] = Append(@, [cmd |-> cmd, ok |-> ok])]
            /\ instanceStore' = IF ok THEN SaveAlertInstance(instanceStore, cmd) ELSE instanceStore
            /\ saveIdx' = [saveIdx EXCEPT ![r] = IF ok THEN @ + 1 ELSE Len(processedStates[r]) + 1]
    /\ UNCHANGED <<rpc, request, condEval, processedStates, postableAlerts, response,
                   lookups, puts, stateCache, notifier>>

\* One iteration of saveAlertStates' loop: the command is issued; a failure
\* is only logged.
saveAlertStates(r) ==
    /\ rpc[r] = "saveAlertStates"
    /\ saveIdx[r] <= Len(processedStates[r])
    /\ LET cmd == SaveAlertInstanceCommand(processedStates[r][saveIdx[r]])
       IN \E ok \in BOOLEAN :
            /\ saveLog' = [saveLog EXCEPT ![r] = Append(@, [cmd |-> cmd, ok |-> ok])]
            /\ instanceStore' = IF ok THEN SaveAlertInstance(instanceStore, cmd) ELSE instanceStore
    /\ saveIdx' = [saveIdx EXCEPT ![r] = @ + 1]
    /\ UNCHANGED <<rpc, request, condEval, processedStates, postableAlerts, response,
                   lookups, puts, stateCache, notifier>>

\* Variant: every failed lookup is answered as an internal error.
LookupErrorResponseInternal(err) ==
    ErrorResponse(StatusInternalServerError, "Failed to process alert", err)

\* The response to a failed alertmanager lookup.
LookupErrorResponse(err) ==
    IF err = ErrNoAlertmanagerForOrg
    THEN ErrorResponse(StatusBadRequest, "Alert manager for organization not found", err)
    ELSE ErrorResponse(StatusInternalServerError, "Failed to process alert", err)

\* Variant: a failed lookup is ignored and the alerts are put all the same.
AlertmanagerForIgnoreError(r) ==
    /\ rpc[r] = "saveAlertStates"
    /\ saveIdx[r] > Len(processedStates[r])
    /\ postableAlerts' = [postableAlerts EXCEPT ![r] = FromAlertStateToPostableAlerts(processedStates[r])]
    /\ \E err \in AlertmanagerForOutcomes(request[r].AlertRule.OrgID) :
         lookups' = [lookups EXCEPT ![r] = Append(@, err)]
    /\ rpc' = [rpc EXCEPT ![r] = "PutAlerts"]
    /\ UNCHANGED <<request, condEval, processedStates, saveIdx, saveLog, puts, response,
                   stateCache, instanceStore, notifier>>

\* After saveAlertStates: the alerts are built and the organization's
\* alertmanager is looked up; a failed lookup ends the request.
AlertmanagerFor(r) ==
    /\ rpc[r] = "saveAlertStates"
    /\ saveIdx[r] > Len(processedStates[r])
    /\ postableAlerts' = [postableAlerts EXCEPT ![r] = FromAlertStateToPostableAlerts(processedStates[r])]
    /\ \E err \in AlertmanagerForOutcomes(request[r].AlertRule.OrgID) :
         /\ lookups' = [lookups EXCEPT ![r] = Append(@, err)]
         /\ IF err = Nil
            THEN /\ rpc' = [rpc EXCEPT ![r] = "PutAlerts"]
                 /\ UNCHANGED response
            ELSE /\ rpc' = [rpc EXCEPT ![r] = "done"]
                 /\ response' = [response EXCEPT ![r] = LookupErrorResponse(err)]
    /\ UNCHANGED <<request, condEval, processedStates, saveIdx, saveLog, puts,
                   stateCache, instanceStore, notifier>>

\* Variant: a failed PutAlerts is tried again.
PutAlertsRetry(r) ==
    /\ rpc[r] = "PutAlerts"
    /\ Len(puts[r]) < 3
    /\ \E err \in PutAlertsOutcomes :
         /\ puts' = [puts EXCEPT ![r] = Append(@, err)]
         /\ IF err = Nil
            THEN /\ notifier' = [notifier EXCEPT ![request[r].AlertRule.OrgID] = Append(@, postableAlerts[r])]
                 /\ response' = [response EXCEPT ![r] = JSONStreaming(StatusOK, postableAlerts[r])]
                 /\ rpc' = [rpc EXCEPT ![r] = "done"]
            ELSE UNCHANGED <<notifier, response, rpc>>
    /\ UNCHANGED <<request, condEval, processedStates, saveIdx, saveLog, postableAlerts,
                   lookups, stateCache, instanceStore>>

\* Variant: the alerts of every organization are put to the alertmanager of
\* organization 1.
PutAlertsSharedNotifier(r) ==
    /\ rpc[r] = "PutAlerts"
    /\ \E err \in PutAlertsOutcomes :
         /\ puts' = [puts EXCEPT ![r] = Append(@, err)]
         /\ IF err = Nil
            THEN /\ notifier' = [notifier EXCEPT ![1] = Append(@, postableAlerts[r])]
                 /\ response' = [response EXCEPT ![r] = JSONStreaming(StatusOK, postableAlerts[r])]
            ELSE /\ response' = [response EXCEPT ![r] =
                                  ErrorResponse(StatusInternalServerError, "Failed to process alert", err)]
                 /\ UNCHANGED notifier
    /\ rpc' = [rpc EXCEPT ![r] = "done"]
    /\ UNCHANGED <<request, condEval, processedStates, saveIdx, saveLog, postableAlerts,
                   lookups, stateCache, instanceStore>>

\* n.PutAlerts(alerts) returns and RouteProcessAlert answers.
PutAlerts(r) ==
    /\ rpc[r] = "PutAlerts"
    /\ \E err \in PutAlertsOutcomes :
         /\ puts' = [puts EXCEPT ![r] = Append(@, err)]
         /\ IF err = Nil
            THEN /\ notifier' = [notifier EXCEPT ![request[r].AlertRule.OrgID] = Append(@, postableAlerts[r])]
                 /\ response' = [response EXCEPT ![r] = JSONStreaming(StatusOK, postableAlerts[r])]
            ELSE /\ response' = [response EXCEPT ![r] =
                                  ErrorResponse(StatusInternalServerError, "Failed to process alert", err)]
                 /\ UNCHANGED notifier
    /\ rpc' = [rpc EXCEPT ![r] = "done"]
    /\ UNCHANGED <<request, condEval, processedStates, saveIdx, saveLog, postableAlerts,
                   lookups, stateCache, instanceStore>>

(***************************************************************************)
(* Evaluation cycles of one rule: process requests served one after the    *)
(* other, each carrying the rule and the result of one instance evaluated   *)
(* later than the one before. Each cycle is RouteProcessAlert's conversion  *)
(* of the request, the state manager's fold and saveAlertStates.            *)
(***************************************************************************)
VARIABLES
    foldRule,         \* the rule the requests carry (apimodels.ApiAlertRule)
    foldTime,         \* EvaluatedAt of the last result
    foldRun,          \* number of Alerting results since the last result of another state
    foldRunStart,     \* EvaluatedAt of the first result of that run
    foldPure,         \* every result so far was Normal or Alerting
    foldReset,        \* a Normal result has arrived while the instance was Pending
    foldLast          \* the last cycle: its result, the state before and after, the command

foldVars == <<foldRule, foldTime, foldRun, foldRunStart, foldPure, foldReset, foldLast>>

FoldRule(for, noDataState, execErrState) ==
    [ID |-> 1, OrgID |-> 1, UID |-> "u1", For |-> for,
     NoDataState |-> noDataState, ExecErrState |-> execErrState]

FoldRules ==
    { FoldRule(for, noDataState, execErrState) :
        for \in 0..MaxFor, noDataState \in {"NoData", "KeepLastState"},
        execErrState \in {"KeepLastState", "Alerting"} }

\* The result of the cycle's evaluation, of the given state.
FoldResult(st, at) ==
    EvalResult("a", st, at, <<>>, IF st = Error THEN <<OtherError>> ELSE <<>>)

InitFold(rules) ==
    /\ foldRule \in rules
    /\ foldTime = 0
    /\ foldRun = 0
    /\ foldRunStart = 0
    /\ foldPure = TRUE
    /\ foldReset = FALSE
    /\ foldLast = <<>>

\* One cycle: RouteProcessAlert converts the rule and the result, the state
\* manager folds the result and saveAlertStates issues the command, whose
\* write succeeds (ok) or fails.
ProcessAlertCycle(st, gap, ok) ==
    /\ foldTime + gap <= MaxFoldTime
    /\ \A r \in Requests : rpc[r] = "idle"
    /\ LET at == foldTime + gap
           alertRule == apiRuleToDbAlertRule(foldRule)
           result == apiToEvaluationResult(evaluationResultsToApi(FoldResult(st, at)))
           before == getOrCreate(stateCache, alertRule, result)
           processed == ProcessEvalResults(stateCache, alertRule, <<result>>)
           cmd == SaveAlertInstanceCommand(processed.states[1])
       IN /\ stateCache' = processed.cache
          /\ instanceStore' = IF ok THEN SaveAlertInstance(instanceStore, cmd) ELSE instanceStore
          /\ foldTime' = at
          /\ foldRun' = IF st = Alerting THEN foldRun + 1 ELSE 0
          /\ foldRunStart' = IF st = Alerting /\ foldRun = 0 THEN at ELSE foldRunStart
          /\ foldPure' = (foldPure /\ st \in {Normal, Alerting})
          /\ foldReset' = (foldReset \/ (st = Normal /\ before.State = Pending))
          /\ foldLast' = <<[result |-> result, before |-> before,
                            after |-> processed.states[1], cmd |-> cmd, ok |-> ok]>>
    /\ UNCHANGED <<foldRule, rpc, request, condEval, processedStates, saveIdx, saveLog,
                   postableAlerts, response, lookups, puts, notifier>>

(***************************************************************************)
(* The conversions between eval.Result and apimodels.ApiEvalResult, applied *)
(* to one result: to the API form (the evaluate response) and back (the     *)
(* process request).                                                        *)
(***************************************************************************)
VARIABLES
    convResult,       \* the eval.Result converted
    convApi,          \* evaluationResultsToApi(convResult), once computed
    convBack          \* apiToEvaluationResult of convApi, once computed

convVars == <<convResult, convApi, convBack>>

\* The values maps of a result: nil, empty, one capture, two captures.
ValuesMaps ==
    { <<>>, <<{}>>, <<{<<"B", Capture>>}>>, <<{<<"B", Capture>>, <<"C", CaptureNoValue>>}>> }

\* The errors of a result: none, a query error of either query, another error.
ResultErrors == { <<>>, <<QueryError>>, <<QueryErrorB>>, <<OtherError>> }

\* The results the conversions are applied to.
ConvEvalResults ==
    { EvalResult(instance, st, at, values, err) :
        instance \in {"a", "b"}, st \in {Normal, Alerting, Pending, NoData, Error},
        at \in {0, 1}, values \in ValuesMaps, err \in ResultErrors }

InitConvert(inputs) ==
    /\ convResult \in inputs
    /\ convApi = <<>>
    /\ convBack = <<>>

ConvertToApi ==
    /\ convApi = <<>>
    /\ convApi' = <<evaluationResultsToApi(convResult)>>
    /\ UNCHANGED <<convResult, convBack>>

ConvertFromApi ==
    /\ convApi # <<>>
    /\ convBack = <<>>
    /\ convBack' = <<apiToEvaluationResult(convApi[1])>>
    /\ UNCHANGED <<convResult, convApi>>

(***************************************************************************)
(* The access-control filter (accesscontrol.Filter): the where clause that *)
(* restricts a query to what the user's scopes allow. A string is the      *)
(* sequence of its characters; a word that is never taken apart ("id", the *)
(* column name, a fixed clause) is held as one character.                  *)
(***************************************************************************)
VARIABLES
    filterSqlID,      \* the sqlID argument
    filterPrefix,     \* the prefix argument
    filterAction,     \* the action argument
    filterUser,       \* the signed-in user: OrgId and Permissions
    filterResult      \* what Filter returned, once called

filterVars == <<filterSqlID, filterPrefix, filterAction, filterUser, filterResult>>

\* A list of scopes holds at most MaxScopes scopes.
MaxScopes == 3

sqlIDAcceptList == { <<"org_user.user_id">> }

denyQuery == <<" 1 = 0">>

allowAllQuery == <<" 1 = 1">>

strings_HasPrefix(s, prefix) ==
    Len(s) >= Len(prefix) /\ SubSeq(s, 1, Len(prefix)) = prefix

strings_TrimPrefix(s, prefix) ==
    IF strings_HasPrefix(s, prefix) THEN SubSeq(s, Len(prefix) + 1, Len(s)) ELSE s

\* strings.LastIndex, counted from 1: 0 when the character is absent.
strings_LastIndex(s, c) ==
    IF \E i \in 1..Len(s) : s[i] = c
    THEN CHOOSE i \in 1..Len(s) : s[i] = c /\ \A j \in (i + 1)..Len(s) : s[j] # c
    ELSE 0

DigitValue(c) ==
    CASE c = "0" -> 0 [] c = "1" -> 1 [] c = "2" -> 2 [] c = "3" -> 3 [] c = "4" -> 4
      [] c = "5" -> 5 [] c = "6" -> 6 [] c = "7" -> 7 [] c = "8" -> 8 [] c = "9" -> 9
      [] OTHER -> -1

RECURSIVE DecimalValue(_)
DecimalValue(s) ==
    IF s = <<>> THEN 0
    ELSE 10 * DecimalValue(SubSeq(s, 1, Len(s) - 1)) + DigitValue(s[Len(s)])

\* strconv.ParseInt(s, 10, 64): an optional sign, then one or more digits,
\* and a value that fits 64 bits; a value of at most 18 digits does, and
\* no scope of Scopes has more.
strconv_ParseInt(s) ==
    LET signed == s # <<>> /\ s[1] \in {"+", "-"}
        digits == IF signed THEN Tail(s) ELSE s
        value == IF signed /\ s[1] = "-" THEN 0 - DecimalValue(digits) ELSE DecimalValue(digits)
    IN  IF digits # <<>>
           /\ (\A i \in 1..Len(digits) : DigitValue(digits[i]) >= 0)
           /\ Len(digits) <= 18
        THEN [id |-> value, err |-> FALSE]
        ELSE [id |-> 0, err |-> TRUE]

parseScopeID(scope) ==
    strconv_ParseInt(SubSeq(scope, strings_LastIndex(scope, ":") + 1, Len(scope)))

\* The loop of Filter over the scopes of the action, from the i-th on: it
\* stops at the first wildcard, and collects the ids that parse.
RECURSIVE filterScopes(_, _, _, _)
filterScopes(scopes, prefix, i, ids) ==
    IF i > Len(scopes) THEN [hasWildcard |-> FALSE, ids |-> ids]
    ELSE LET scope == scopes[i]
             id == strings_TrimPrefix(scope, prefix)
             parsed == parseScopeID(scope)
         IN  IF ~strings_HasPrefix(scope, prefix)
             THEN filterScopes(scopes, prefix, i + 1, ids)
             ELSE IF id = <<":", "*">> \/ id = <<":", "id", ":", "*">>
             THEN [hasWildcard |-> TRUE, ids |-> ids]
             ELSE IF ~parsed.err
             THEN filterScopes(scopes, prefix, i + 1, Append(ids, parsed.id))
             ELSE filterScopes(scopes, prefix, i + 1, ids)

\* strings.Repeat.
RECURSIVE strings_Repeat(_, _)
strings_Repeat(s, count) == IF count <= 0 THEN <<>> ELSE s \o strings_Repeat(s, count - 1)

\* Variant: one placeholder more than there are ids.
inClauseOneMore(sqlID, ids) ==
    <<" ">> \o sqlID \o <<" IN ">> \o <<"(", "?">> \o strings_Repeat(<<",", "?">>, Len(ids))
        \o <<")">>

\* The clause Filter builds for the ids it collected.
inClause(sqlID, ids) ==
    <<" ">> \o sqlID \o <<" IN ">> \o <<"(", "?">> \o strings_Repeat(<<",", "?">>, Len(ids) - 1)
        \o <<")">>

\* The scopes of a permission map for an organisation and an action: the
\* map is a set of <<organisation, action, scopes>>, a missing key gives nil.
ScopesOf(permissions, orgId, action) ==
    IF \E p \in permissions : p[1] = orgId /\ p[2] = action
    THEN (CHOOSE p \in permissions : p[1] = orgId /\ p[2] = action)[3]
    ELSE <<>>

\* Variant: a wildcard of any scope allows everything.
FilterAnyWildcard(sqlID, prefix, action, user) ==
    IF sqlID \notin sqlIDAcceptList
    THEN [query |-> denyQuery, args |-> <<>>, err |-> "sqlID is not in the accept list"]
    ELSE IF user.Permissions = <<>> \/ ~\E p \in user.Permissions[1] : p[1] = user.OrgId
    THEN [query |-> denyQuery, args |-> <<>>, err |-> "missing permissions"]
    ELSE LET scopes == ScopesOf(user.Permissions[1], user.OrgId, action)
             r == filterScopes(scopes, prefix, 1, <<>>)
         IN  IF r.hasWildcard \/ \E i \in 1..Len(scopes) : scopes[i][Len(scopes[i])] = "*"
             THEN [query |-> allowAllQuery, args |-> <<>>, err |-> ""]
             ELSE IF Len(r.ids) = 0
             THEN [query |-> denyQuery, args |-> <<>>, err |-> ""]
             ELSE [query |-> inClause(sqlID, r.ids), args |-> r.ids, err |-> ""]

\* Filter: user.Permissions is <<>> when nil, else <<the map>>; the map of
\* an organisation is nil when no key of the map names the organisation.
Filter(sqlID, prefix, action, user) ==
    IF sqlID \notin sqlIDAcceptList
    THEN [query |-> denyQuery, args |-> <<>>, err |-> "sqlID is not in the accept list"]
    ELSE IF user.Permissions = <<>> \/ ~\E p \in user.Permissions[1] : p[1] = user.OrgId
    THEN [query |-> denyQuery, args |-> <<>>, err |-> "missing permissions"]
    ELSE LET r == filterScopes(ScopesOf(user.Permissions[1], user.OrgId, action), prefix, 1, <<>>)
         IN  IF r.hasWildcard
             THEN [query |-> allowAllQuery, args |-> <<>>, err |-> ""]
             ELSE IF Len(r.ids) = 0
             THEN [query |-> denyQuery, args |-> <<>>, err |-> ""]
             ELSE [query |-> inClause(sqlID, r.ids), args |-> r.ids, err |-> ""]

\* The scopes a user can hold: the two wildcards of the prefix "users",
\* ids of it (also signed, of two digits, not a number, missing), a scope
\* without a colon, a scope of a longer name, and a wildcard and an id of
\* another prefix.
Scopes ==
    { <<"users", ":", "*">>, <<"users", ":", "id", ":", "*">>,
      <<"users", ":", "id", ":", "1">>, <<"users", ":", "id", ":", "2", "3">>,
      <<"users", ":", "id", ":", "-", "4">>, <<"users", ":", "id", ":", "x">>,
      <<"users", ":", "id", ":">>, <<"users">>, <<"users", "x", ":", "id", ":", "5">>,
      <<"teams", ":", "*">>, <<"teams", ":", "id", ":", "6">> }

ScopeLists == UNION { [1..n -> Scopes] : n \in 0..MaxScopes }

\* The permission maps of a user: nil, or a map with or without a key for
\* each organisation; organisation 1 has the scopes of "users:read" drawn
\* from ScopeLists, organisation 2 a wildcard.
PermissionMaps ==
    { <<>> } \cup
    { << (IF one THEN { <<1, "users:read", scopes>>, <<1, "users:write", other>> } ELSE {})
          \cup (IF two THEN { <<2, "users:read", << <<"users", ":", "*">> >> >> } ELSE {}) >> :
        one \in BOOLEAN, two \in BOOLEAN, scopes \in ScopeLists,
        other \in { <<>>, << <<"users", ":", "*">> >> } }

\* The users whose scopes of "users:read" in organisation 1 are among
\* scopeLists.
FilterUsers(scopeLists) ==
    { [OrgId |-> o, Permissions |-> p] :
        o \in {1, 2},
        p \in { q \in PermissionMaps :
                  q = <<>> \/ \A e \in q[1] :
                                 e[2] = "users:read" /\ e[1] = 1 => e[3] \in scopeLists } }

InitFilter(users, sqlIDs, actions) ==
    /\ filterSqlID \in sqlIDs
    /\ filterPrefix = <<"users">>
    /\ filterAction \in actions
    /\ filterUser \in users
    /\ filterResult = <<>>

\* A query calls Filter for its user.
CallFilter ==
    /\ filterResult = <<>>
    /\ filterResult' = << Filter(filterSqlID, filterPrefix, filterAction, filterUser) >>
    /\ UNCHANGED <<filterSqlID, filterPrefix, filterAction, filterUser>>

(***************************************************************************)
(* The migration that sets the dashboard_uid and panel_id columns of the   *)
(* alert rules of one organisation from their annotations                  *)
(* (UpdateOrgDashboardUIDPanelIDMigration.Exec). A nil column or pointer   *)
(* is <<>>, a set one <<value>>.                                           *)
(***************************************************************************)
VARIABLES
    panelOrgId,       \* m.OrgId
    panelRules,       \* the rows of alert_rule, by id
    panelPc,          \* position of Exec: "start", "loop", "done", "failed"
    panelResults,     \* the rows the query selected
    panelIdx          \* how many of them the loop has handled

panelVars == <<panelOrgId, panelRules, panelPc, panelResults, panelIdx>>

\* The table alert_rule holds MaxPanelRules rules.
MaxPanelRules == 3

\* The two annotation keys of ngmodels; only their being distinct matters.
DashboardUIDAnnotation == "DashboardUIDAnnotation"

PanelIDAnnotation == "PanelIDAnnotation"

\* The annotations of a rule: with or without a dashboard uid (also an
\* empty one), with or without a panel id (also one that is no number).
RuleAnnotations ==
    { d \cup q :
        d \in { {}, { <<DashboardUIDAnnotation, "d1">> }, { <<DashboardUIDAnnotation, "">> } },
        q \in { {}, { <<PanelIDAnnotation, <<"7">> >> }, { <<PanelIDAnnotation, <<"x">> >> } } }

\* The tables: every rule in organisation 1 or 2, its columns not set yet.
AlertRuleTables ==
    { [id \in 1..MaxPanelRules |->
          [ID |-> id, OrgID |-> orgs[id], Annotations |-> anns[id],
           dashboard_uid |-> <<>>, panel_id |-> <<>>]] :
        orgs \in [1..MaxPanelRules -> {1, 2}], anns \in [1..MaxPanelRules -> RuleAnnotations] }

\* next.Annotations[key] of a map held as a set of <<key, value>>.
Annotation(annotations, key) ==
    IF \E a \in annotations : a[1] = key
    THEN << (CHOOSE a \in annotations : a[1] = key)[2] >>
    ELSE <<>>

\* Variant: the update is made whether or not there is a dashboard uid.
setDashboardUIDPanelIDAlways(row) ==
    LET dashboardUID == Annotation(row.Annotations, DashboardUIDAnnotation)
        s == Annotation(row.Annotations, PanelIDAnnotation)
        parsed == strconv_ParseInt(s[1])
        panelID == IF s # <<>> THEN <<parsed.id>> ELSE <<>>
    IN  IF s # <<>> /\ parsed.err THEN [row |-> row, err |-> TRUE]
        ELSE [row |-> [row EXCEPT !.dashboard_uid = dashboardUID, !.panel_id = panelID],
              err |-> FALSE]

\* One turn of the loop on a row: the panel id is parsed, which can end
\* Exec with an error, and the columns are set if there is a dashboard uid.
setDashboardUIDPanelID(row) ==
    LET dashboardUID == Annotation(row.Annotations, DashboardUIDAnnotation)
        s == Annotation(row.Annotations, PanelIDAnnotation)
        parsed == strconv_ParseInt(s[1])
        panelID == IF s # <<>> THEN <<parsed.id>> ELSE <<>>
    IN  IF s # <<>> /\ parsed.err THEN [row |-> row, err |-> TRUE]
        ELSE IF dashboardUID # <<>>
        THEN [row |-> [row EXCEPT !.dashboard_uid = dashboardUID, !.panel_id = panelID],
              err |-> FALSE]
        ELSE [row |-> row, err |-> FALSE]

InitPanel(tables, orgIds) ==
    /\ panelOrgId \in orgIds
    /\ panelRules \in tables
    /\ panelPc = "start"
    /\ panelResults = <<>>
    /\ panelIdx = 0

\* The ids of the rules of an organisation, in the order of their ids.
RECURSIVE SelectIds(_, _, _)
SelectIds(table, orgId, id) ==
    IF id > Len(table) THEN <<>>
    ELSE (IF table[id].OrgID = orgId THEN <<id>> ELSE <<>>) \o SelectIds(table, orgId, id + 1)

\* The query of Exec: the rules of the organisation, or an error.
PanelSelect(ok) ==
    /\ panelPc = "start"
    /\ panelPc' = IF ok THEN "loop" ELSE "failed"
    /\ panelResults' = IF ok THEN SelectIds(panelRules, panelOrgId, 1) ELSE <<>>
    /\ UNCHANGED <<panelOrgId, panelRules, panelIdx>>

\* One turn of Exec's loop: the next row selected gets its columns set, or
\* Exec ends with an error of the panel id or of the update.
PanelUpdate(ok) ==
    /\ panelPc = "loop"
    /\ panelIdx < Len(panelResults)
    /\ LET id == panelResults[panelIdx + 1]
           r == setDashboardUIDPanelID(panelRules[id])
           updates == r.row # panelRules[id]
       IN  IF r.err \/ (updates /\ ~ok)
           THEN /\ panelPc' = "failed"
                /\ UNCHANGED <<panelRules, panelIdx>>
           ELSE /\ panelRules' = [panelRules EXCEPT ![id] = r.row]
                /\ panelIdx' = panelIdx + 1
                /\ UNCHANGED panelPc
    /\ UNCHANGED <<panelOrgId, panelResults>>

\* Exec returns nil after the last row.
PanelReturn ==
    /\ panelPc = "loop"
    /\ panelIdx = Len(panelResults)
    /\ panelPc' = "done"
    /\ UNCHANGED <<panelOrgId, panelRules, panelResults, panelIdx>>

(***************************************************************************)
(* The migration of one organisation's dashboard alerts to unified alert   *)
(* rules (MigrateOrgAlerts.Exec): the default route, then one alert rule   *)
(* per dashboard alert with its silences, receiver and route, then the     *)
(* alertmanager configuration and the silences file.                       *)
(***************************************************************************)
VARIABLES
    mpc,                  \* position of Exec: "start", "loop", "done", "failed"
    allChannels,          \* allChannelsPerOrg[orgId]: uids of the organisation's channels
    defaultChannels,      \* defaultChannelsPerOrg[orgId]: uids of its default channels
    dashAlerts,           \* the dashboard alerts slurpDashAlerts loaded
    daIdx,                \* how many of them the loop has handled
    alertRuleTable,       \* rows inserted into alert_rule, in insertion order
    silences,             \* m.silences[orgId]
    portedChannelGroups,  \* m.portedChannelGroupsPerOrg[orgId]: <<channel group key, receiver name>>
    migratedChannels,     \* m.migratedChannelsPerOrg[orgId]
    amConfig,             \* amConfigPerOrg[orgId], NilPointer when the organisation has none
    writtenAmConfig,      \* the alert_configuration row written, if any
    silencesFile,         \* the silences file written, if any
    folderCache,          \* Exec's folderCache: the names of the folders it holds
    folder,               \* the uid of the folder of the alert being handled, once found
    execResult            \* what Exec returned, or that it panicked, once it has ended

migVars == <<mpc, allChannels, defaultChannels, dashAlerts, daIdx, alertRuleTable, silences,
             portedChannelGroups, migratedChannels, amConfig, writtenAmConfig, silencesFile,
             folderCache, folder, execResult>>

\* The organisation migrated (m.orgId).
MigOrgId == 1

\* A dashboard alert list holds at most MaxDashAlerts alerts.
MaxDashAlerts == 2

\* The UIDs util.GenerateShortUID returns for rules.
RuleUIDs == {"u1", "u2"}

\* The notification channels an organisation can have, by uid.
NotificationChannels ==
    [uid \in {"c1", "c2", "c3", "c4"} |->
        [Uid |-> uid,
         Name |-> CASE uid = "c1" -> "mail" [] uid = "c2" -> "chat" [] uid = "c3" -> "hip"
                    [] OTHER -> "sen",
         Type |-> CASE uid = "c1" -> "email" [] uid = "c2" -> "slack" [] uid = "c3" -> "hipchat"
                    [] OTHER -> "sensu"]]

\* The channel sets of an organisation: none, or two channels in use and
\* two discontinued ones.
ChannelSets == { {}, {"c1", "c2", "c3", "c4"} }

\* The default channels of an organisation with channels.
DefaultChannelSets == { {}, {"c1"} }

\* A dashboard alert (dashAlert with its parsed settings).
DashAlert(id, kind) ==
    [Id |-> id, OrgId |-> MigOrgId, Name |-> kind.Name, State |-> kind.State,
     ParsedSettings |-> [NoDataState |-> kind.NoDataState,
                         ExecutionErrorState |-> kind.ExecutionErrorState,
                         Notifications |-> kind.Notifications]]

\* What a dashboard alert can be: a paused alert "cpu", or an alert "mem"
\* that keeps its state on errors and on no data; notifying no channel, one
\* channel in use, one discontinued channel or a channel that no longer
\* exists ("c9").
DashAlertKinds ==
    { [Name |-> s[1], NoDataState |-> s[2], ExecutionErrorState |-> s[3],
       State |-> s[4], Notifications |-> n] :
        s \in { <<"cpu", "no_data", "alerting", "paused">>,
                <<"mem", "keep_state", "keep_state", "ok">> },
        n \in { {}, {"c1"}, {"c2"}, {"c3"}, {"c4"}, {"c9"} } }

DashAlertLists ==
    UNION { { [i \in 1..n |-> DashAlert(i, kinds[i])] : kinds \in [1..n -> DashAlertKinds] } :
            n \in 1..MaxDashAlerts }

\* Whether uuid.NewV4 succeeds for the pause, the Error and the NoData
\* silence of one rule: for all of them, or for none.
UuidOutcomes == { <<TRUE, TRUE, TRUE>>, <<FALSE, FALSE, FALSE>> }

\* The orders a Go map over the keys S can be ranged in.
Orders(S) ==
    { o \in [1..Cardinality(S) -> S] : \A i, j \in 1..Cardinality(S) : o[i] = o[j] => i = j }

getLabelForRouteMatching(ruleUID) == <<"rule_uid", ruleUID>>

ErrorAlertName == "DatasourceError"

NoDataAlertName == "DatasourceNoData"

\* extractChannelIDs: the channels the alert's settings name.
extractChannelIDs(da) == da.ParsedSettings.Notifications

\* makeKeyForChannelGroup: one key per set of channel uids.
makeKeyForChannelGroup(channelUids) == channelUids

\* Variant: discontinued channels are ported like the others.
addChannelDiscontinuedToo(order) ==
    [i \in 1..Len(order) |->
        [Name |-> NotificationChannels[order[i]].Name, Type |-> NotificationChannels[order[i]].Type]]

\* The channels addChannel ports, ranged in the given order: a discontinued
\* channel is logged and left out.
RECURSIVE addChannel(_)
addChannel(order) ==
    IF order = <<>> THEN <<>>
    ELSE LET c == NotificationChannels[Head(order)]
         IN  (IF c.Type = "hipchat" \/ c.Type = "sensu"
              THEN <<>>
              ELSE << [Name |-> c.Name, Type |-> c.Type] >>) \o addChannel(Tail(order))

\* generateContactPointName: the channel names joined by the separator,
\* held as the sequence of the names joined.
generateContactPointName(channels) == [i \in 1..Len(channels) |-> channels[i].Name]

\* Variant: a ported channel group is not remembered.
makeReceiverAndRouteForgetful(ruleUid, channelUids, defaults, all, ported, migrated, order, addChannelOk) ==
    LET filteredChannelUids == (channelUids \cap all) \cup (defaults \cap all)
        chanKey == makeKeyForChannelGroup(filteredChannelUids)
        known == \E p \in ported : p[1] = chanKey
        rn == (CHOOSE p \in ported : p[1] = chanKey)[2]
        portedChannels == addChannel(order)
        added == { u \in filteredChannelUids :
                     NotificationChannels[u].Type \notin {"hipchat", "sensu"} }
        receiverName ==
            IF known THEN rn
            ELSE IF ruleUid = "default_route" THEN <<"autogen-contact-point-default">>
            ELSE generateContactPointName(portedChannels)
        label == getLabelForRouteMatching(ruleUid)
        route == [Receiver |-> receiverName,
                  Matchers |-> << [Type |-> "=", Name |-> label[1], Value |-> label[2]] >>,
                  Routes |-> <<>>]
        none == [recv |-> NilPointer, route |-> NilPointer, err |-> FALSE,
                 ported |-> ported, migrated |-> migrated]
    IN  IF filteredChannelUids = {} /\ ruleUid # "default_route" THEN none
        ELSE IF known
             THEN IF rn = <<"autogen-contact-point-default">>
                  THEN none
                  ELSE [none EXCEPT !.route = route]
        ELSE IF added # {} /\ ~addChannelOk
             THEN [none EXCEPT !.err = TRUE, !.migrated = migrated \cup added]
        ELSE [recv |-> [Name |-> receiverName, GrafanaManagedReceivers |-> portedChannels],
              route |-> route, err |-> FALSE,
              ported |-> ported,
              migrated |-> migrated \cup added]

\* makeReceiverAndRoute: the receiver and the route of a rule (or of the
\* default route) for its channels and the default ones. order is the order
\* the map of channel uids is ranged in, addChannelOk whether porting the
\* channels succeeds (a channel UID is generated, the settings migrate).
makeReceiverAndRoute(ruleUid, channelUids, defaults, all, ported, migrated, order, addChannelOk) ==
    LET filteredChannelUids == (channelUids \cap all) \cup (defaults \cap all)
        chanKey == makeKeyForChannelGroup(filteredChannelUids)
        known == \E p \in ported : p[1] = chanKey
        rn == (CHOOSE p \in ported : p[1] = chanKey)[2]
        portedChannels == addChannel(order)
        added == { u \in filteredChannelUids :
                     NotificationChannels[u].Type \notin {"hipchat", "sensu"} }
        receiverName ==
            IF known THEN rn
            ELSE IF ruleUid = "default_route" THEN <<"autogen-contact-point-default">>
            ELSE generateContactPointName(portedChannels)
        label == getLabelForRouteMatching(ruleUid)
        route == [Receiver |-> receiverName,
                  Matchers |-> << [Type |-> "=", Name |-> label[1], Value |-> label[2]] >>,
                  Routes |-> <<>>]
        none == [recv |-> NilPointer, route |-> NilPointer, err |-> FALSE,
                 ported |-> ported, migrated |-> migrated]
    IN  IF filteredChannelUids = {} /\ ruleUid # "default_route" THEN none
        ELSE IF known
             THEN IF rn = <<"autogen-contact-point-default">>
                  THEN none
                  ELSE [none EXCEPT !.route = route]
        ELSE IF added # {} /\ ~addChannelOk
             THEN [none EXCEPT !.err = TRUE, !.migrated = migrated \cup added]
        ELSE [recv |-> [Name |-> receiverName, GrafanaManagedReceivers |-> portedChannels],
              route |-> route, err |-> FALSE,
              ported |-> ported \cup { <<chanKey, receiverName>> },
              migrated |-> migrated \cup added]

\* Variant: the silence of a paused alert is put on the alert's name.
addSilenceOnAlertName(da, rule, sil, uuidOk) ==
    IF da.State # "paused" \/ ~uuidOk THEN sil
    ELSE Append(sil, [Matchers |-> << [Type |-> "=", Name |-> "alertname", Pattern |-> da.Name] >>,
                      StartsAt |-> 0, EndsAt |-> 365 * 20, ExpiresAt |-> 365 * 20,
                      CreatedBy |-> "Grafana Migration",
                      Comment |-> "Created during auto migration to unified alerting"])

\* addSilence: a paused alert gets a silence on the routing label of its
\* rule, unless no uuid can be made for it. Times are in hours from now.
addSilence(da, rule, sil, uuidOk) ==
    IF da.State # "paused" \/ ~uuidOk THEN sil
    ELSE LET label == getLabelForRouteMatching(rule.UID)
         IN  Append(sil, [Matchers |-> << [Type |-> "=", Name |-> label[1], Pattern |-> label[2]] >>,
                          StartsAt |-> 0, EndsAt |-> 365 * 20, ExpiresAt |-> 365 * 20,
                          CreatedBy |-> "Grafana Migration",
                          Comment |-> "Created during auto migration to unified alerting"])

\* addErrorSilence: silences the Error alerts of a rule that kept its state.
addErrorSilence(da, rule, sil, uuidOk) ==
    IF da.ParsedSettings.ExecutionErrorState # "keep_state" \/ ~uuidOk THEN sil
    ELSE Append(sil, [Matchers |-> << [Type |-> "=", Name |-> "alertname", Pattern |-> ErrorAlertName],
                                      [Type |-> "=", Name |-> "rule_uid", Pattern |-> rule.UID] >>,
                      StartsAt |-> 0, EndsAt |-> 365 * 24, ExpiresAt |-> 365 * 24,
                      CreatedBy |-> "Grafana Migration",
                      Comment |-> "Created during migration to unified alerting to silence Error state"])

\* addNoDataSilence: silences the NoData alerts of a rule that kept its state.
addNoDataSilence(da, rule, sil, uuidOk) ==
    IF da.ParsedSettings.NoDataState # "keep_state" \/ ~uuidOk THEN sil
    ELSE Append(sil, [Matchers |-> << [Type |-> "=", Name |-> "alertname", Pattern |-> NoDataAlertName],
                                      [Type |-> "=", Name |-> "rule_uid", Pattern |-> rule.UID] >>,
                      StartsAt |-> 0, EndsAt |-> 365 * 24, ExpiresAt |-> 365 * 24,
                      CreatedBy |-> "Grafana Migration",
                      Comment |-> "Created during migration to unified alerting to silence NoData state"])

\* ar.Labels[n] = v on a label map held as a set of <<name, value>>.
SetLabel(lbls, n, v) == { l \in lbls : l[1] # n } \cup { <<n, v>> }

\* makeAlertRule: the rule of a dashboard alert under the UID generated for
\* it, labelled for routing, and the silences with those of the alert added.
\* uuidOk tells, for each of the three silences, whether its uuid is made.
makeAlertRule(da, folderUID, uid, sil, uuidOk) ==
    LET label == getLabelForRouteMatching(uid)
        ar == [OrgID |-> da.OrgId, Title |-> <<da.Name>>, UID |-> uid,
               NamespaceUID |-> folderUID, RuleGroup |-> <<da.Name>>,
               Labels |-> SetLabel({ <<"alertname", da.Name>> }, label[1], label[2])]
    IN  [rule |-> ar,
         silences |-> addNoDataSilence(da, ar,
                          addErrorSilence(da, ar,
                              addSilence(da, ar, sil, uuidOk[1]), uuidOk[2]), uuidOk[3])]

\* updateReceiverAndRoute: a rule with channels gets its receiver and route
\* appended to the configuration.
updateReceiverAndRoute(da, rule, config, defaults, all, ported, migrated, order, addChannelOk) ==
    LET channelIDs == extractChannelIDs(da)
        r == makeReceiverAndRoute(rule.UID, channelIDs, defaults, all, ported, migrated,
                                  order, addChannelOk)
        receivers == IF r.recv = NilPointer THEN config.Receivers
                     ELSE Append(config.Receivers, r.recv)
        routes == IF r.route = NilPointer THEN config.Route.Routes
                  ELSE Append(config.Route.Routes, r.route)
    IN  IF channelIDs = {}
        THEN [config |-> config, err |-> FALSE, ported |-> ported, migrated |-> migrated]
        ELSE [config |-> [config EXCEPT !.Receivers = receivers, !.Route.Routes = routes],
              err |-> r.err, ported |-> r.ported, migrated |-> r.migrated]

\* The unique indexes of alert_rule: (org_id, uid) and
\* (org_id, namespace_uid, title).
InsertFails(table, rule) ==
    \E i \in 1..Len(table) :
        /\ table[i].OrgID = rule.OrgID
        /\ \/ table[i].UID = rule.UID
           \/ table[i].NamespaceUID = rule.NamespaceUID /\ table[i].Title = rule.Title

\* The rule as Exec inserts it after a failed insert: title and group get
\* the UID appended.
Retitled(rule) ==
    [rule EXCEPT !.Title = Append(rule.Title, rule.UID),
                 !.RuleGroup = Append(rule.RuleGroup, rule.UID)]

GENERAL_FOLDER == "General Alerting"

\* What Exec ends with: nil, an error, a MigrationError for an alert, or a
\* panic of the runtime.
ExecReturns(kind, alertId) == << [kind |-> kind, AlertId |-> alertId] >>

MigrationError(alertId) == ExecReturns("MigrationError", alertId)

\* The dashboard of an alert: with permissions of its own (HasAcl), in a
\* folder (FolderId > 0), or neither.
DashboardKinds == {"HasAcl", "InFolder", "General"}

\* The operation of one turn of the loop that fails, if any.
FailingSteps ==
    {"none", "transConditions", "getDashboard", "noDashboard", "createFolder", "getACL",
     "setACL", "getFolder", "getOrCreateGeneralFolder", "emptyUid"}

Preparations == [dash : DashboardKinds, failing : FailingSteps]

\* getAlertFolderNameFromDashboard: the folder of the alerts of a dashboard
\* with permissions of its own.
getAlertFolderNameFromDashboard(dash) == "dashboard Alerts"

\* The uid of the folder a dashboard's alerts go to.
FolderUid(dash) ==
    CASE dash = "HasAcl" -> "f-acl" [] dash = "InFolder" -> "f-in" [] OTHER -> "f-general"

\* The first part of a turn of Exec's loop for the alert da: its condition
\* and dashboard are read and its folder is found in the cache, fetched or
\* created. When setACL fails, the error message reads folder.Id while
\* folder is still nil.
prepareFolder(da, p, cache) ==
    LET failed(result) == [result |-> result, cache |-> cache, ok |-> FALSE, folder |-> ""]
        name == IF p.dash = "HasAcl" THEN getAlertFolderNameFromDashboard(p.dash)
                ELSE GENERAL_FOLDER
        cached == name \in cache
    IN  IF p.failing = "transConditions" THEN failed(ExecReturns("error", 0))
        ELSE IF p.failing \in {"getDashboard", "noDashboard"} THEN failed(MigrationError(da.Id))
        ELSE IF p.dash = "HasAcl" /\ ~cached /\ p.failing \in {"createFolder", "getACL"}
             THEN failed(MigrationError(da.Id))
        ELSE IF p.dash = "HasAcl" /\ ~cached /\ p.failing = "setACL"
             THEN failed(ExecReturns("panic", 0))
        ELSE IF p.dash = "InFolder" /\ p.failing = "getFolder"
             THEN failed(MigrationError(da.Id))
        ELSE IF p.dash = "General" /\ ~cached /\ p.failing = "getOrCreateGeneralFolder"
             THEN failed(MigrationError(da.Id))
        ELSE IF p.failing = "emptyUid"
             THEN [result |-> MigrationError(da.Id), ok |-> FALSE, folder |-> "",
                   cache |-> IF p.dash = "InFolder" THEN cache ELSE cache \cup {name}]
        ELSE [result |-> <<>>, ok |-> TRUE, folder |-> FolderUid(p.dash),
              cache |-> IF p.dash = "InFolder" THEN cache ELSE cache \cup {name}]

InitMigrate(alertLists, channelSets) ==
    /\ mpc = "start"
    /\ allChannels \in channelSets
    /\ defaultChannels \in { d \cap allChannels : d \in DefaultChannelSets }
    /\ dashAlerts \in alertLists
    /\ daIdx = 0
    /\ alertRuleTable = <<>>
    /\ silences = <<>>
    /\ portedChannelGroups = {}
    /\ migratedChannels = {}
    /\ amConfig = NilPointer
    /\ writtenAmConfig = <<>>
    /\ silencesFile = <<>>
    /\ folderCache = {}
    /\ folder = ""
    /\ execResult = <<>>

\* Exec up to its loop: the channels are loaded and addDefaultChannels makes
\* the root route and the default receiver of an organisation with channels.
addDefaultChannels(order, addChannelOk) ==
    /\ mpc = "start"
    /\ order \in Orders(defaultChannels)
    /\ LET r == makeReceiverAndRoute("default_route", {}, defaultChannels, allChannels,
                                     portedChannelGroups, migratedChannels, order, addChannelOk)
           empty == [Receivers |-> <<>>,
                     Route |-> [Receiver |-> <<>>, Matchers |-> <<>>, Routes |-> <<>>]]
       IN  IF allChannels = {}
           THEN /\ mpc' = "loop"
                /\ UNCHANGED <<amConfig, portedChannelGroups, migratedChannels, execResult>>
           ELSE /\ mpc' = IF r.err THEN "failed" ELSE "loop"
                /\ execResult' = IF r.err THEN ExecReturns("error", 0) ELSE <<>>
                /\ amConfig' =
                      IF r.err THEN empty
                      ELSE [Receivers |-> <<r.recv>>, Route |-> [r.route EXCEPT !.Matchers = <<>>]]
                /\ portedChannelGroups' = r.ported
                /\ migratedChannels' = r.migrated
    /\ UNCHANGED <<allChannels, defaultChannels, dashAlerts, daIdx, alertRuleTable, silences,
                   writtenAmConfig, silencesFile, folderCache, folder>>

\* The channels makeReceiverAndRoute keeps for the next dashboard alert.
NextFilteredChannels ==
    IF daIdx < Len(dashAlerts)
    THEN (extractChannelIDs(dashAlerts[daIdx + 1]) \cup defaultChannels) \cap allChannels
    ELSE {}

\* A turn of Exec's loop up to the folder of the next dashboard alert: the
\* turn goes on to the rule, or Exec ends with what the failure gives.
ExecPrepareFolder(p) ==
    /\ mpc = "loop"
    /\ daIdx < Len(dashAlerts)
    /\ LET r == prepareFolder(dashAlerts[daIdx + 1], p, folderCache)
       IN  /\ folder' = r.folder
           /\ folderCache' = r.cache
           /\ execResult' = r.result
           /\ mpc' = IF r.ok THEN "rule"
                     ELSE IF r.result = ExecReturns("panic", 0) THEN "crashed" ELSE "failed"
    /\ UNCHANGED <<allChannels, defaultChannels, dashAlerts, daIdx, alertRuleTable, silences,
                   portedChannelGroups, migratedChannels, amConfig, writtenAmConfig,
                   silencesFile>>

\* The rest of the turn: makeAlertRule makes the rule under the generated
\* uid in the folder prepared (or fails on the alert's queries or settings),
\* updateReceiverAndRoute routes it, and the rule is inserted, a second time
\* under a longer title if the first insert fails.
ExecDashAlert(uid, uuidOk, order, addChannelOk, ruleMade) ==
    /\ mpc = "rule"
    /\ LET da == dashAlerts[daIdx + 1]
           made == makeAlertRule(da, folder, uid, silences, uuidOk)
           rule == made.rule
           upd == updateReceiverAndRoute(da, rule, amConfig, defaultChannels, allChannels,
                                         portedChannelGroups, migratedChannels, order, addChannelOk)
           routed == amConfig # NilPointer
           inserted == IF InsertFails(alertRuleTable, rule) THEN Retitled(rule) ELSE rule
       IN  /\ order \in Orders(NextFilteredChannels)
           /\ folder' = ""
           /\ IF ~ruleMade
              THEN /\ mpc' = "failed"
                   /\ execResult' = ExecReturns("error", 0)
                   /\ UNCHANGED <<daIdx, alertRuleTable, silences, portedChannelGroups,
                                  migratedChannels, amConfig>>
              ELSE /\ silences' = made.silences
                   /\ amConfig' = IF routed THEN upd.config ELSE amConfig
                   /\ portedChannelGroups' = IF routed THEN upd.ported ELSE portedChannelGroups
                   /\ migratedChannels' = IF routed THEN upd.migrated ELSE migratedChannels
                   /\ IF (routed /\ upd.err) \/ InsertFails(alertRuleTable, inserted)
                      THEN /\ mpc' = "failed"
                           /\ execResult' = ExecReturns("error", 0)
                           /\ UNCHANGED <<daIdx, alertRuleTable>>
                      ELSE /\ mpc' = "loop"
                           /\ daIdx' = daIdx + 1
                           /\ alertRuleTable' = Append(alertRuleTable, inserted)
                           /\ UNCHANGED execResult
    /\ UNCHANGED <<allChannels, defaultChannels, dashAlerts, writtenAmConfig, silencesFile,
                   folderCache>>

\* addUnmigratedChannels: the channels no receiver holds, but for the
\* discontinued ones, make one more receiver. order is the order the map of
\* channels yields those not migrated yet.
addUnmigratedChannels(config, all, migrated, order) ==
    LET portedChannels == addChannel(order)
    IN  IF Len(portedChannels) > 0
        THEN [config EXCEPT !.Receivers =
                 Append(@, [Name |-> <<"autogen-unlinked-channel-recv">>,
                            GrafanaManagedReceivers |-> portedChannels])]
        ELSE config

\* Exec after its loop: the unmigrated channels are added, the
\* configuration is validated and written, and so is the silences file;
\* an organisation without channels has no configuration and writes nothing.
\* written tells whether porting, validating and writing succeed.
ExecFinish(order, written) ==
    /\ mpc = "loop"
    /\ daIdx = Len(dashAlerts)
    /\ order \in Orders(allChannels \ migratedChannels)
    /\ IF amConfig = NilPointer
       THEN /\ mpc' = "done"
            /\ execResult' = ExecReturns("nil", 0)
            /\ UNCHANGED <<amConfig, writtenAmConfig, silencesFile, migratedChannels>>
       ELSE LET config == addUnmigratedChannels(amConfig, allChannels, migratedChannels, order)
            IN  /\ amConfig' = config
                /\ mpc' = IF written THEN "done" ELSE "failed"
                /\ execResult' = IF written THEN ExecReturns("nil", 0) ELSE ExecReturns("error", 0)
                /\ writtenAmConfig' = IF written THEN <<config>> ELSE <<>>
                /\ silencesFile' = IF written THEN <<silences>> ELSE <<>>
                /\ migratedChannels' =
                      migratedChannels \cup
                          { u \in allChannels \ migratedChannels :
                              NotificationChannels[u].Type \notin {"hipchat", "sensu"} }
    /\ UNCHANGED <<allChannels, defaultChannels, dashAlerts, daIdx, alertRuleTable, silences,
                   portedChannelGroups, folderCache, folder>>

NextMigrate ==
    \/ \E order \in Orders(defaultChannels), addChannelOk \in BOOLEAN :
         addDefaultChannels(order, addChannelOk) /\ UNCHANGED <<jobVars, apiVars, convVars, foldVars, filterVars, panelVars>>
    \/ \E p \in Preparations :
         ExecPrepareFolder(p) /\ UNCHANGED <<jobVars, apiVars, convVars, foldVars, filterVars, panelVars>>
    \/ \E uid \in RuleUIDs, uuidOk \in UuidOutcomes,
          order \in Orders(NextFilteredChannels), addChannelOk \in BOOLEAN,
          ruleMade \in BOOLEAN :
         ExecDashAlert(uid, uuidOk, order, addChannelOk, ruleMade)
             /\ UNCHANGED <<jobVars, apiVars, convVars, foldVars, filterVars, panelVars>>
    \/ \E order \in Orders(allChannels \ migratedChannels), written \in BOOLEAN :
         ExecFinish(order, written) /\ UNCHANGED <<jobVars, apiVars, convVars, foldVars, filterVars, panelVars>>

NextFilter ==
    CallFilter /\ UNCHANGED <<jobVars, apiVars, convVars, foldVars, migVars, panelVars>>

NextPanel ==
    \/ \E ok \in BOOLEAN :
         PanelSelect(ok) /\ UNCHANGED <<jobVars, apiVars, convVars, foldVars, migVars, filterVars>>
    \/ \E ok \in BOOLEAN :
         PanelUpdate(ok) /\ UNCHANGED <<jobVars, apiVars, convVars, foldVars, migVars, filterVars>>
    \/ PanelReturn /\ UNCHANGED <<jobVars, apiVars, convVars, foldVars, migVars, filterVars>>

NextConvert ==
    \/ ConvertToApi /\ UNCHANGED <<jobVars, apiVars, foldVars, migVars, filterVars, panelVars>>
    \/ ConvertFromApi /\ UNCHANGED <<jobVars, apiVars, foldVars, migVars, filterVars, panelVars>>

NextFold ==
    \E st \in {Normal, Alerting, NoData, Error}, gap \in 1..MaxGap, ok \in BOOLEAN :
        ProcessAlertCycle(st, gap, ok) /\ UNCHANGED <<jobVars, convVars, migVars, filterVars, panelVars>>

NextApi ==
    \/ \E r \in Requests, rule \in ApiAlertRules :
         RouteEvaluateAlert(r, [AlertRule |-> rule]) /\ UNCHANGED <<jobVars, convVars, foldVars, migVars, filterVars, panelVars>>
    \/ \E r \in Requests : ConditionEval(r) /\ UNCHANGED <<jobVars, convVars, foldVars, migVars, filterVars, panelVars>>
    \/ \E r \in Requests, rule \in ApiAlertRules, results \in ApiEvalResultLists :
         RouteProcessAlert(r, [AlertRule |-> rule, EvaluationResults |-> results])
             /\ UNCHANGED <<jobVars, convVars, foldVars, migVars, filterVars, panelVars>>
    \/ \E r \in Requests : saveAlertStates(r) /\ UNCHANGED <<jobVars, convVars, foldVars, migVars, filterVars, panelVars>>
    \/ \E r \in Requests : AlertmanagerFor(r) /\ UNCHANGED <<jobVars, convVars, foldVars, migVars, filterVars, panelVars>>
    \/ \E r \in Requests : PutAlerts(r) /\ UNCHANGED <<jobVars, convVars, foldVars, migVars, filterVars, panelVars>>

NextJob ==
    \/ Tick /\ UNCHANGED <<apiVars, convVars, foldVars, migVars, filterVars, panelVars>>
    \/ \E c \in Callers, alert \in DBAlerts :
         HandleEvaluateAlertCommand(c, alert) /\ UNCHANGED <<apiVars, convVars, foldVars, migVars, filterVars, panelVars>>
    \/ \E c \in Callers, alertId \in AlertIds :
         HandleEvaluateAlertByIdCommand(c, alertId) /\ UNCHANGED <<apiVars, convVars, foldVars, migVars, filterVars, panelVars>>
    \/ \E c \in Callers : processJobSendCancelFn(c) /\ UNCHANGED <<apiVars, convVars, foldVars, migVars, filterVars, panelVars>>
    \/ \E c \in Callers : Eval(c) /\ UNCHANGED <<apiVars, convVars, foldVars, migVars, filterVars, panelVars>>
    \/ \E c \in Callers : processJobSendResultHandleCancelFn(c) /\ UNCHANGED <<apiVars, convVars, foldVars, migVars, filterVars, panelVars>>
    \/ \E c \in Callers : handle(c) /\ UNCHANGED <<apiVars, convVars, foldVars, migVars, filterVars, panelVars>>
    \/ \E c \in Callers : processJobEnd(c) /\ UNCHANGED <<apiVars, convVars, foldVars, migVars, filterVars, panelVars>>
    \/ \E c \in Callers : Return(c) /\ UNCHANGED <<apiVars, convVars, foldVars, migVars, filterVars, panelVars>>

vars == <<jobVars, apiVars, convVars, foldVars, migVars, filterVars, panelVars>>

\* The evaluation job alone.
InitJobSpec ==
    /\ InitJob(0..MaxAttemptsSetting)
    /\ InitApi
    /\ InitConvert({EvalResult("a", Normal, 0, <<>>, <<>>)})
    /\ InitFold({FoldRule(0, "NoData", "Alerting")})
    /\ InitMigrate({<<>>}, {{}})
    /\ InitFilter({[OrgId |-> 1, Permissions |-> <<>>]}, {<<"user.id">>}, {"users:read"})
    /\ InitPanel({<<>>}, {1})

SpecJob == InitJobSpec /\ [][NextJob]_vars

\* The evaluation job under the scheduling the runtime gives it: time
\* passes, a cancelled evaluation returns, and every step of processJob after
\* the evaluation is taken once it can be. An evaluation whose context is
\* live is not required to return: its query may hang.
EvalCancelled(c) ==
    /\ jpc[c] = "Eval"
    /\ Done(evalContext[c].Ctx, clock)
    /\ Eval(c)

JobFairness ==
    /\ WF_vars(Tick /\ UNCHANGED <<apiVars, convVars, foldVars, migVars, filterVars, panelVars>>)
    /\ \A c \in Callers :
          /\ WF_vars(EvalCancelled(c) /\ UNCHANGED <<apiVars, convVars, foldVars, migVars, filterVars, panelVars>>)
          /\ WF_vars(processJobSendResultHandleCancelFn(c) /\ UNCHANGED <<apiVars, convVars, foldVars, migVars, filterVars, panelVars>>)
          /\ WF_vars(handle(c) /\ UNCHANGED <<apiVars, convVars, foldVars, migVars, filterVars, panelVars>>)
          /\ WF_vars(processJobEnd(c) /\ UNCHANGED <<apiVars, convVars, foldVars, migVars, filterVars, panelVars>>)

SpecJobLive == InitJobSpec /\ [][NextJob]_vars /\ JobFairness

\* The endpoints alone.
InitApiSpec ==
    /\ InitJob({MaxAttemptsSetting})
    /\ InitApi
    /\ InitConvert({EvalResult("a", Normal, 0, <<>>, <<>>)})
    /\ InitFold({FoldRule(0, "NoData", "Alerting")})
    /\ InitMigrate({<<>>}, {{}})
    /\ InitFilter({[OrgId |-> 1, Permissions |-> <<>>]}, {<<"user.id">>}, {"users:read"})
    /\ InitPanel({<<>>}, {1})

SpecApi == InitApiSpec /\ [][NextApi]_vars

\* Both pipelines: the legacy job and the endpoints share no state, so one
\* of them runs while the other has done nothing yet.
JobQuiet == clock = 0 /\ \A c \in Callers : jpc[c] = "idle"

ApiQuiet == \A r \in Requests : rpc[r] = "idle"

NextPipeline ==
    \/ ApiQuiet /\ NextJob
    \/ JobQuiet /\ NextApi

SpecPipeline == InitJobSpec /\ [][NextPipeline]_vars

\* The conversions alone, applied to every result of ConvEvalResults.
InitConvertSpec ==
    /\ InitJob({MaxAttemptsSetting})
    /\ InitApi
    /\ InitConvert(ConvEvalResults)
    /\ InitFold({FoldRule(0, "NoData", "Alerting")})
    /\ InitMigrate({<<>>}, {{}})
    /\ InitFilter({[OrgId |-> 1, Permissions |-> <<>>]}, {<<"user.id">>}, {"users:read"})
    /\ InitPanel({<<>>}, {1})

SpecConvert == InitConvertSpec /\ [][NextConvert]_vars

\* The evaluation cycles of one rule, for every rule of FoldRules.
InitFoldSpec ==
    /\ InitJob({MaxAttemptsSetting})
    /\ InitApi
    /\ InitConvert({EvalResult("a", Normal, 0, <<>>, <<>>)})
    /\ InitFold(FoldRules)
    /\ InitMigrate({<<>>}, {{}})
    /\ InitFilter({[OrgId |-> 1, Permissions |-> <<>>]}, {<<"user.id">>}, {"users:read"})
    /\ InitPanel({<<>>}, {1})

SpecFold == InitFoldSpec /\ [][NextFold]_vars

\* The migration alone, for every list of DashAlertLists and every channel
\* set of ChannelSets.
InitMigrateSpec ==
    /\ InitJob({MaxAttemptsSetting})
    /\ InitApi
    /\ InitConvert({EvalResult("a", Normal, 0, <<>>, <<>>)})
    /\ InitFold({FoldRule(0, "NoData", "Alerting")})
    /\ InitMigrate(DashAlertLists, ChannelSets)
    /\ InitFilter({[OrgId |-> 1, Permissions |-> <<>>]}, {<<"user.id">>}, {"users:read"})
    /\ InitPanel({<<>>}, {1})

SpecMigrate == InitMigrateSpec /\ [][NextMigrate]_vars

\* The filter alone, for every user of PermissionMaps.
InitFilterSpec ==
    /\ InitJob({MaxAttemptsSetting})
    /\ InitApi
    /\ InitConvert({EvalResult("a", Normal, 0, <<>>, <<>>)})
    /\ InitFold({FoldRule(0, "NoData", "Alerting")})
    /\ InitMigrate({<<>>}, {{}})
    /\ InitFilter(FilterUsers(ScopeLists), {<<"org_user.user_id">>, <<"user.id">>},
                  {"users:read", "users:delete"})
    /\ InitPanel({<<>>}, {1})

SpecFilter == InitFilterSpec /\ [][NextFilter]_vars

\* The panel-id migration alone, for every table of AlertRuleTables and
\* either organisation.
InitPanelSpec ==
    /\ InitJob({MaxAttemptsSetting})
    /\ InitApi
    /\ InitConvert({EvalResult("a", Normal, 0, <<>>, <<>>)})
    /\ InitFold({FoldRule(0, "NoData", "Alerting")})
    /\ InitMigrate({<<>>}, {{}})
    /\ InitFilter({[OrgId |-> 1, Permissions |-> <<>>]}, {<<"user.id">>}, {"users:read"})
    /\ InitPanel(AlertRuleTables, {1, 2})

SpecPanel == InitPanelSpec /\ [][NextPanel]_vars

(***************************************************************************)
(* Claims about the evaluation job.                                        *)
(***************************************************************************)
\* The evaluator has been invoked by caller c and has not returned.
Evaluating(c) == jpc[c] = "Eval"

\* Caller c is between the invocation of the evaluator and the end of result handling.
Executing(c) == jpc[c] \in {"Eval", "sendResultHandleCancelFn", "handle"}

\* C1: of two invocations for the same rule issued back-to-back, only one
\* evaluation is ever active: the second one sees running = TRUE and is
\* skipped, so two callers are never inside the evaluator for the same rule.
C1_OneActiveEvaluationPerRule ==
    \A c1, c2 \in Callers :
        (c1 # c2 /\ Evaluating(c1) /\ Evaluating(c2)) => job[c1].Rule.ID # job[c2].Rule.ID

\* C2: the job's running flag reads TRUE from the invocation of the
\* evaluator until result handling has completed.
C2_RunningWhileExecuting ==
    \A c \in Callers : Executing(c) => GetRunning(job[c]) = TRUE

\* C3: result handling runs under a timeout context of its own, created from
\* the background context when evaluation has ended: it is done exactly when
\* AlertingNotificationTimeout has passed since its creation, whatever the
\* state of the evaluation deadline.
C3_IndependentNotificationContext ==
    \A c \in Callers :
        jpc[c] \in {"handle", "handled"} =>
            /\ evalContext[c].Ctx = resultHandleCtx[c]
            /\ resultHandleCtx[c].created >= alertCtx[c].created
            /\ Done(evalContext[c].Ctx, clock)
                 = (clock >= resultHandleCtx[c].created + AlertingNotificationTimeout)

\* C3 witness: result handling is running although the evaluation deadline has expired.
C3_Witness ==
    \E c \in Callers :
        /\ jpc[c] = "handle"
        /\ Done(alertCtx[c], clock)
        /\ ~Done(evalContext[c].Ctx, clock)

\* C5: whatever Eval's outcome, processJob does not block on handing over the
\* second cancel function, computes the rule's new state, invokes the result
\* handler exactly once and stores the evaluation context in job.Result.
C5_EvalErrorDoesNotAbort ==
    \A c \in Callers :
        /\ jpc[c] = "sendResultHandleCancelFn" => Len(cancelChan[c]) < ChanCap
        /\ (jpc[c] = "done" /\ calls[c] # <<>>) =>
              /\ Len(calls[c]) = 3
              /\ calls[c][2] = "GetNewState"
              /\ calls[c][3] \in {"handle", "handle failed"}
              /\ evalContext[c].Rule.State = GetNewState(evalContext[c])
              /\ job[c].Result = <<evalContext[c]>>
              /\ cmdResult[c] = <<evalContext[c]>>

\* C5 witness: a command has returned the context of a failed evaluation.
C5_Witness ==
    \E c \in Callers :
        /\ jpc[c] = "done"
        /\ cmdResult[c] # <<>>
        /\ cmdResult[c][1].Error # Nil
        /\ calls[c][3] = "handle"

\* C13: a cycle whose query call never returns does not hang. An evaluation
\* that is still running when the evaluation timeout has expired is
\* cancelled, the cycle is recorded as errored (the context's error is the
\* evaluation's error and the rule's state is the one GetNewState gives for
\* a failed evaluation), and the command returns that result; and every
\* evaluation whose deadline lies within the clock's range ends with the
\* command returning a result.
C13_HangingQueryTimesOut ==
    \A c \in Callers :
        /\ (Evaluating(c) /\ Done(alertCtx[c], clock))
              ~> (/\ jpc[c] = "done"
                  /\ cmdResult[c] # <<>>
                  /\ cmdResult[c][1].Error = EvalDeadlineExceeded.Error
                  /\ cmdResult[c][1].Rule.State = GetNewState(cmdResult[c][1])
                  /\ calls[c] \in {<<"Eval", "GetNewState", "handle">>,
                                   <<"Eval", "GetNewState", "handle failed">>})
        /\ (Evaluating(c) /\ alertCtx[c].deadline <= MaxClock)
              ~> (jpc[c] = "done" /\ cmdResult[c] # <<>>)

\* C13 witness: a command has returned the result of an evaluation that was
\* cancelled by the evaluation timeout.
C13_Witness ==
    \E c \in Callers :
        /\ jpc[c] = "done"
        /\ cmdResult[c] # <<>>
        /\ cmdResult[c][1].Error = EvalDeadlineExceeded.Error
        /\ clock >= alertCtx[c].created + AlertingEvaluationTimeout

\* C14: the on-demand entry points register nothing with the ticking
\* scheduler: no step of HandleEvaluateAlertCommand,
\* HandleEvaluateAlertByIdCommand, handleRule or processJob changes the set of
\* scheduled jobs, and the Job of a call is local to it: a step changes the
\* job of the caller that takes it and of no other caller.
C14_SchedulerUntouched ==
    [][/\ schedulerJobs' = schedulerJobs
       /\ \A c \in Callers : jpc'[c] = jpc[c] => job'[c] = job[c]]_vars

\* C14 witness: on-demand evaluations of an unscheduled and of a scheduled
\* rule have returned their results and the scheduled jobs are those of the start.
C14_Witness ==
    /\ \A c \in Callers : jpc[c] = "done" /\ cmdResult[c] # <<>>
    /\ {job[c].Rule.ID : c \in Callers} = {1, 2}
    /\ schedulerJobs = ScheduledRuleIds

\* The number of invocations of the evaluator by caller c's handleRule call.
EvalCount(c) == Len(SelectSeq(calls[c], LAMBDA call : call = "Eval"))

\* C15: one job execution performs exactly one evaluation of its rule: a
\* handleRule call never invokes the evaluator more than once, it is attempt
\* 1, and once the evaluator has returned (failed or not) it has been invoked
\* exactly once up to the return of the call.
C15_ExactlyOneEvaluation ==
    \A c \in Callers :
        /\ EvalCount(c) <= 1
        /\ jpc[c] \in {"sendCancelFn", "Eval"} => EvalCount(c) = 0
        /\ jpc[c] \in {"sendResultHandleCancelFn", "handle", "handled"} => EvalCount(c) = 1
        /\ (jpc[c] = "done" /\ cmdResult[c] # <<>>) => EvalCount(c) = 1
        /\ jpc[c] \notin {"idle", "done"} =>
              (attemptChan[c].buf = <<1>> /\ cancelChan[c] \in {<<>>, <<"cancelFn">>,
                                                               <<"cancelFn", "resultHandleCancelFn">>})

\* C15 witness: a call whose only evaluation failed has returned.
C15_Witness ==
    \E c \in Callers :
        /\ jpc[c] = "done"
        /\ cmdResult[c] # <<>>
        /\ cmdResult[c][1].Error = "error"
        /\ EvalCount(c) = 1

(***************************************************************************)
(* Claims about the evaluate and process endpoints.                        *)
(***************************************************************************)
\* Request r is a request of the given route past its first step.
InRoute(r, route) == rpc[r] # "idle" /\ request[r].route = route

\* Request r is a process request that has finished saveAlertStates and
\* reached the dispatch of its alerts.
Dispatching(r) == InRoute(r, "process") /\ rpc[r] \in {"PutAlerts", "done"}

\* The job's collaborator calls so far follow the order Eval, GetNewState, handle.
JobCallsInOrder(c) ==
    /\ Len(calls[c]) <= 3
    /\ Len(calls[c]) >= 1 => calls[c][1] = "Eval"
    /\ Len(calls[c]) >= 2 => calls[c][2] = "GetNewState"
    /\ Len(calls[c]) >= 3 => calls[c][3] \in {"handle", "handle failed"}

\* C4: within one cycle the phases are strictly ordered. In processJob: Eval,
\* then GetNewState, then resultHandler.handle. In RouteProcessAlert: no
\* lookup or dispatch happens while states are being saved, and when the
\* alerts are dispatched there is one state per evaluation result, one save
\* command per state, and the alerts are those of the complete state list.
C4_PhasesOrdered ==
    /\ \A c \in Callers : JobCallsInOrder(c)
    /\ \A r \in Requests :
          /\ (InRoute(r, "process") /\ rpc[r] = "saveAlertStates") =>
                (lookups[r] = <<>> /\ puts[r] = <<>> /\ postableAlerts[r] = <<>>)
          /\ Dispatching(r) =>
                /\ Len(processedStates[r]) = Len(request[r].EvaluationResults)
                /\ Len(saveLog[r]) = Len(processedStates[r])
                /\ postableAlerts[r] = FromAlertStateToPostableAlerts(processedStates[r])

\* C4 witness: a request with two results has dispatched its alerts.
C4_Witness ==
    \E r \in Requests :
        /\ Dispatching(r)
        /\ puts[r] = <<Nil>>
        /\ Len(request[r].EvaluationResults) = 2
        /\ Len(postableAlerts[r]) >= 1

\* C6: a failure of the condition evaluator is answered with a result list
\* holding an Error-state entry (status 200), never with an error response.
C6_EvaluationFailureFolded ==
    \A r \in Requests :
        (InRoute(r, "evaluate") /\ rpc[r] = "done" /\ condEval[r].err # <<>>) =>
            /\ response[r].status = StatusOK
            /\ \E i \in 1..Len(response[r].body) : response[r].body[i].State = Error

\* Request r is a finished process request for an organization without alertmanager.
NoRoute(r) ==
    /\ InRoute(r, "process")
    /\ rpc[r] = "done"
    /\ request[r].AlertRule.OrgID \notin AlertmanagerOrgs

\* C7 (as stated): a process request for an organization without
\* alertmanager gets the no-route error and has issued no SaveAlertInstance write.
C7_NoRouteNoWrites ==
    \A r \in Requests :
        NoRoute(r) => (response[r].status = StatusBadRequest /\ saveLog[r] = <<>>)

\* C7 (amended): a process request for an organization without alertmanager
\* gets the no-route error (status 400) and never calls PutAlerts; the writes
\* it has issued are those of saveAlertStates, one per processed state.
C7_NoRouteNoDispatch ==
    \A r \in Requests :
        NoRoute(r) =>
            /\ response[r].status = StatusBadRequest
            /\ response[r].err = ErrNoAlertmanagerForOrg
            /\ puts[r] = <<>>
            /\ \A o \in OrgIDs \ AlertmanagerOrgs : notifier[o] = <<>>
            /\ [i \in 1..Len(saveLog[r]) |-> saveLog[r][i].cmd]
                 = MapSeq(processedStates[r], SaveAlertInstanceCommand)

\* C7 witness: a no-route request that has written an instance.
C7_Witness ==
    \E r \in Requests :
        /\ NoRoute(r)
        /\ saveLog[r] # <<>>
        /\ saveLog[r][1].ok
        /\ <<request[r].AlertRule.OrgID, request[r].AlertRule.UID, saveLog[r][1].cmd.Labels>>
              \in {InstanceKey(row) : row \in instanceStore}

\* C8: the outcomes of the process operation are classified: a lookup that
\* fails with ErrNoAlertmanagerForOrg gives status 400 and any other lookup
\* failure status 500, both without a call of PutAlerts; a failed PutAlerts
\* gives status 500; only a successful PutAlerts gives status 200 with the alerts.
C8_DispatchOutcomes ==
    \A r \in Requests :
        (InRoute(r, "process") /\ rpc[r] = "done") =>
            /\ Len(lookups[r]) = 1
            /\ lookups[r][1] = ErrNoAlertmanagerForOrg =>
                  (response[r].status = StatusBadRequest /\ puts[r] = <<>>)
            /\ lookups[r][1] \notin {Nil, ErrNoAlertmanagerForOrg} =>
                  (response[r].status = StatusInternalServerError /\ puts[r] = <<>>)
            /\ (lookups[r][1] = Nil /\ puts[r] # <<Nil>>) =>
                  (response[r].status = StatusInternalServerError /\ Len(puts[r]) = 1)
            /\ response[r].status = StatusOK <=> puts[r] = <<Nil>>
            /\ response[r].status = StatusOK => response[r].body = postableAlerts[r]

\* C8 witness: the lookup of one finished request missed with the no-route
\* error while the other request failed in PutAlerts.
C8_Witness ==
    \E r1, r2 \in Requests :
        /\ InRoute(r1, "process") /\ rpc[r1] = "done"
        /\ InRoute(r2, "process") /\ rpc[r2] = "done"
        /\ lookups[r1] = <<ErrNoAlertmanagerForOrg>>
        /\ lookups[r2] = <<Nil>> /\ puts[r2] # <<Nil>>

\* C9: the dispatcher does not retry: a process request calls
\* AlertmanagerFor once and PutAlerts at most once, and a delivery failure is
\* the error of the request's response.
C9_NoRetry ==
    \A r \in Requests :
        /\ Len(lookups[r]) <= 1
        /\ Len(puts[r]) <= 1
        /\ Dispatching(r) => Len(lookups[r]) = 1
        /\ (InRoute(r, "process") /\ rpc[r] = "done" /\ puts[r] # <<>> /\ puts[r][1] # Nil) =>
              /\ response[r].status = StatusInternalServerError
              /\ response[r].err = puts[r][1]
              /\ notifier[request[r].AlertRule.OrgID]
                   \in {<<>>} \cup {<<postableAlerts[q]>> : q \in Requests \ {r}}

\* C9 witness: a request whose only PutAlerts failed has been answered.
C9_Witness ==
    \E r \in Requests :
        /\ InRoute(r, "process") /\ rpc[r] = "done"
        /\ Len(puts[r]) = 1 /\ puts[r][1] # Nil
        /\ postableAlerts[r] # <<>>

\* C10: a failed instance-store write does not abort the batch: while
\* saveAlertStates runs it has issued one command for each state it has
\* passed, and once it has returned it has issued exactly one command for
\* each processed state, in order, and the request has gone on to the lookup.
C10_SaveFailureDoesNotAbort ==
    \A r \in Requests :
        InRoute(r, "process") =>
            /\ Len(saveLog[r]) = saveIdx[r] - 1
            /\ [i \in 1..Len(saveLog[r]) |-> saveLog[r][i].cmd]
                 = MapSeq(SubSeq(processedStates[r], 1, saveIdx[r] - 1), SaveAlertInstanceCommand)
            /\ rpc[r] # "saveAlertStates" =>
                  (Len(saveLog[r]) = Len(processedStates[r]) /\ Len(lookups[r]) = 1)

\* C10 witness: the first of two writes failed, the second was issued and
\* the alerts were delivered.
C10_Witness ==
    \E r \in Requests :
        /\ InRoute(r, "process") /\ rpc[r] = "done"
        /\ Len(saveLog[r]) = 2
        /\ ~saveLog[r][1].ok
        /\ saveLog[r][2].ok
        /\ puts[r] = <<Nil>>

\* The process requests of organization o whose alerts have been delivered.
Delivered(o) ==
    {r \in Requests : InRoute(r, "process") /\ request[r].AlertRule.OrgID = o /\ puts[r] = <<Nil>>}

\* C16: organization isolation. The states a process request computes, and
\* so the alerts it derives, are those of its rule's organization; the
\* alertmanager of organization o has received exactly one batch from each
\* delivered request of o, each batch the alerts of such a request, and
\* nothing from the requests of any other organization, however the requests
\* interleave.
C16_OrganizationIsolation ==
    /\ \A r \in Requests :
          InRoute(r, "process") =>
              \A i \in 1..Len(processedStates[r]) :
                  /\ processedStates[r][i].OrgID = request[r].AlertRule.OrgID
                  /\ processedStates[r][i].AlertRuleUID = request[r].AlertRule.UID
    /\ \A k \in DOMAIN stateCache :
          stateCache[k].OrgID = k[1] /\ stateCache[k].AlertRuleUID = k[2]
    /\ \A o \in OrgIDs :
          /\ Len(notifier[o]) = Cardinality(Delivered(o))
          /\ \A i \in 1..Len(notifier[o]) :
                \E r \in Delivered(o) : notifier[o][i] = postableAlerts[r]

\* C16 witness: requests for the rules of organizations 1 and 2 (same UID)
\* have both delivered alerts, each to the alertmanager of its organization.
C16_Witness ==
    \E r1, r2 \in Requests :
        /\ r1 \in Delivered(1) /\ r2 \in Delivered(2)
        /\ postableAlerts[r1] # <<>> /\ postableAlerts[r2] # <<>>
        /\ postableAlerts[r1] # postableAlerts[r2]
        /\ notifier[1] = <<postableAlerts[r1]>>
        /\ notifier[2] = <<postableAlerts[r2]>>

\* The successful save commands of all requests.
SavedCommands ==
    UNION {{saveLog[r][i].cmd : i \in {j \in 1..Len(saveLog[r]) : saveLog[r][j].ok}} : r \in Requests}

\* C19: the instance store holds at most one row per (OrgID, RuleUID,
\* label-set): every save command is keyed by exactly the OrgID, AlertRuleUID
\* and Labels of the state it saves, no two rows have the same key, every
\* row is the command of a successful save, and every key saved has a row.
C19_OneRowPerInstance ==
    /\ \A r \in Requests :
          \A i \in 1..Len(saveLog[r]) :
              InstanceKey(saveLog[r][i].cmd)
                = <<processedStates[r][i].OrgID, processedStates[r][i].AlertRuleUID,
                    processedStates[r][i].Labels>>
    /\ \A row1, row2 \in instanceStore :
          InstanceKey(row1) = InstanceKey(row2) => row1 = row2
    /\ instanceStore \subseteq SavedCommands
    /\ {InstanceKey(row) : row \in instanceStore} = {InstanceKey(cmd) : cmd \in SavedCommands}

\* C19 witness: two requests have saved different states of the same
\* instance and the store holds one row for it.
C19_Witness ==
    \E r1, r2 \in Requests :
        /\ r1 # r2
        /\ rpc[r1] = "done" /\ rpc[r2] = "done"
        /\ \E i \in 1..Len(saveLog[r1]), j \in 1..Len(saveLog[r2]) :
              /\ saveLog[r1][i].ok /\ saveLog[r2][j].ok
              /\ InstanceKey(saveLog[r1][i].cmd) = InstanceKey(saveLog[r2][j].cmd)
              /\ saveLog[r1][i].cmd # saveLog[r2][j].cmd
              /\ Cardinality({row \in instanceStore :
                                InstanceKey(row) = InstanceKey(saveLog[r1][i].cmd)}) = 1

(***************************************************************************)
(* Claims about the state fold.                                            *)
(***************************************************************************)
\* The state of the instance of the cycles.
FoldState == stateCache[<<foldRule.OrgID, foldRule.UID, "a">>]

\* The results needed by a rule under the count reading of For.
RunNeeded == IF foldRule.For = 0 THEN 1 ELSE foldRule.For

C18_KeepLastStateOnError ==
    (foldLast # <<>> /\ foldLast[1].result.State = Error
        /\ foldRule.ExecErrState = "KeepLastState") =>
        LET last == foldLast[1]
        IN /\ last.after.State = last.before.State
           /\ last.after.StartsAt = last.before.StartsAt
           /\ last.after.LastEvaluationTime = last.result.EvaluatedAt
           /\ FoldState = last.after
           /\ last.cmd.State = StateString(last.before.State)
           /\ last.cmd.LastEvalTime = last.result.EvaluatedAt
           /\ last.ok => \E row \in instanceStore :
                            /\ InstanceKey(row) = <<foldRule.OrgID, foldRule.UID, "a">>
                            /\ row.State = StateString(last.before.State)
                            /\ row.LastEvalTime = last.result.EvaluatedAt

\* C18 witness: an Error result has been processed under "Keep Last State"
\* for an instance that was Pending, and its row has been rewritten.
C18_Witness ==
    /\ foldLast # <<>>
    /\ foldLast[1].result.State = Error
    /\ foldRule.ExecErrState = "KeepLastState"
    /\ foldLast[1].before.State = Pending
    /\ foldLast[1].before.LastEvaluationTime < foldLast[1].result.EvaluatedAt
    /\ foldLast[1].ok
    /\ \E row \in instanceStore : row.State = "Pending" /\ row.LastEvalTime = foldTime

(***************************************************************************)
(* Claims about the conversions.                                           *)
(***************************************************************************)
\* The fields of a result the round trip is stated for.
RoundTripFields(result) ==
    [Instance |-> result.Instance, State |-> result.State, EvaluatedAt |-> result.EvaluatedAt,
     EvaluationDuration |-> result.EvaluationDuration, Values |-> result.Values]

\* C11: round trip: apiToEvaluationResult(evaluationResultsToApi(r)) equals r
\* on Instance, State, EvaluatedAt, EvaluationDuration and Values, a nil
\* Values map and every captured Var/Labels/Value entry included.
C11_RoundTrip ==
    convBack # <<>> => RoundTripFields(convBack[1]) = RoundTripFields(convResult)

\* C11 witness: a result with two captures (one without value) and an error
\* has been converted to the API form and back.
C11_Witness ==
    /\ convBack # <<>>
    /\ convResult.Values = <<{<<"B", Capture>>, <<"C", CaptureNoValue>>}>>
    /\ convResult.Error # <<>>
    /\ convBack[1].Values = convResult.Values

\* C12: error classification of the API result: a query error is reported
\* with type QUERY_ERROR and metadata REF_ID equal to its reference id; any
\* other error with type OTHER and no REF_ID entry; a result without error
\* carries no error object. Exactly one of the three cases applies.
C12_ErrorClassification ==
    convApi # <<>> =>
        LET err == convResult.Error
            api == convApi[1].Error
        IN /\ err = <<>> <=> api = <<>>
           /\ (err # <<>> /\ err[1].Query) =>
                 /\ api[1].Type = QueryErrorType
                 /\ api[1].Metadata = {<<EvaluationErrorRefIdKey, err[1].RefID>>}
                 /\ api[1].Message = err[1].Err
           /\ (err # <<>> /\ ~err[1].Query) =>
                 /\ api[1].Type = OtherErrorType
                 /\ \A kv \in api[1].Metadata : kv[1] # EvaluationErrorRefIdKey
                 /\ api[1].Message = err[1].Err
           /\ api # <<>> => api[1].Type \in {QueryErrorType, OtherErrorType}

\* C12 witness: the error of query B has been converted.
C12_Witness ==
    /\ convApi # <<>>
    /\ convResult.Error = <<QueryErrorB>>
    /\ convApi[1].Error[1].Metadata = {<<EvaluationErrorRefIdKey, "B">>}

\* The value of the label n in a label set, empty when the label is absent.
LabelValue(lbls, n) ==
    IF \E l \in lbls : l[1] = n THEN (CHOOSE l \in lbls : l[1] = n)[2] ELSE ""

\* A silence matches the label sets all of its equality matchers agree with.
SilenceMatches(s, lbls) ==
    \A i \in 1..Len(s.Matchers) : LabelValue(lbls, s.Matchers[i].Name) = s.Matchers[i].Pattern

\* A route matches the label sets all of its equality matchers agree with.
RouteMatches(r, lbls) ==
    \A i \in 1..Len(r.Matchers) : LabelValue(lbls, r.Matchers[i].Name) = r.Matchers[i].Value

\* The silences made for paused alerts.
PauseSilences ==
    { i \in 1..Len(silences) :
        silences[i].Comment = "Created during auto migration to unified alerting" }

\* The routes made for rules: the child routes of the root route.
RuleRoutes == IF amConfig = NilPointer THEN <<>> ELSE amConfig.Route.Routes

\* The migrated rules: the rows of alert_rule, one per alert handled.
MigratedRules == 1..Len(alertRuleTable)

\* C20: while the migration has not failed, every migrated rule carries a
\* label whose value is its own UID and that no other migrated rule
\* carries; every silence made for a paused alert has one equality matcher,
\* on exactly that label of the rule of a paused alert, and matches that rule
\* and no other migrated rule; and every route made for a rule has one
\* equality matcher, on exactly that label of a rule with channels, and
\* matches that rule and no other migrated rule.
C20_RoutingLabelMatchesOwnRule ==
    mpc \in {"loop", "rule", "done"} =>
        /\ Len(alertRuleTable) = daIdx
        /\ \A i \in MigratedRules :
              \E l \in alertRuleTable[i].Labels :
                  /\ l[2] = alertRuleTable[i].UID
                  /\ \A j \in MigratedRules : j # i => l \notin alertRuleTable[j].Labels
        /\ \A k \in PauseSilences :
              \E i \in MigratedRules :
                  /\ dashAlerts[i].State = "paused"
                  /\ Len(silences[k].Matchers) = 1
                  /\ silences[k].Matchers[1].Type = "="
                  /\ silences[k].Matchers[1].Pattern = alertRuleTable[i].UID
                  /\ <<silences[k].Matchers[1].Name, silences[k].Matchers[1].Pattern>>
                        \in alertRuleTable[i].Labels
                  /\ \A j \in MigratedRules :
                        SilenceMatches(silences[k], alertRuleTable[j].Labels) <=> j = i
        /\ \A k \in 1..Len(RuleRoutes) :
              \E i \in MigratedRules :
                  /\ extractChannelIDs(dashAlerts[i]) # {}
                  /\ Len(RuleRoutes[k].Matchers) = 1
                  /\ RuleRoutes[k].Matchers[1].Type = "="
                  /\ RuleRoutes[k].Matchers[1].Value = alertRuleTable[i].UID
                  /\ <<RuleRoutes[k].Matchers[1].Name, RuleRoutes[k].Matchers[1].Value>>
                        \in alertRuleTable[i].Labels
                  /\ \A j \in MigratedRules :
                        RouteMatches(RuleRoutes[k], alertRuleTable[j].Labels) <=> j = i

\* C20 witness: a finished migration of two paused alerts of the same name
\* with different channels: two rules, a pause silence for each, a route
\* for each, and the silences written.
C20_Witness ==
    /\ mpc = "done"
    /\ Len(alertRuleTable) = 2
    /\ dashAlerts[1].Name = dashAlerts[2].Name
    /\ Cardinality(PauseSilences) = 2
    /\ Len(RuleRoutes) = 2
    /\ silencesFile = <<silences>>

\* The scopes the user holds for the action in their current organisation.
HeldScopes ==
    IF filterUser.Permissions = <<>> THEN <<>>
    ELSE ScopesOf(filterUser.Permissions[1], filterUser.OrgId, filterAction)

\* The wildcard scopes of the prefix.
WildcardScopes == { filterPrefix \o <<":", "*">>, filterPrefix \o <<":", "id", ":", "*">> }

\* The last segment of a scope: what follows its last colon.
LastSegment(scope) ==
    CHOOSE t \in { SubSeq(scope, i, Len(scope)) : i \in 1..(Len(scope) + 1) } :
        /\ \A k \in 1..Len(t) : t[k] # ":"
        /\ Len(t) = Len(scope) \/ scope[Len(scope) - Len(t)] = ":"

\* A segment is an integer: decimal digits after an optional sign.
IsInteger(t) ==
    LET d == IF t # <<>> /\ t[1] \in {"+", "-"} THEN Tail(t) ELSE t
    IN  d # <<>> /\ \A k \in 1..Len(d) : d[k] \in {"0", "1", "2", "3", "4", "5", "6", "7", "8", "9"}

\* The integer a segment denotes.
IntegerOf(t) ==
    IF t[1] = "-" THEN 0 - DecimalValue(Tail(t))
    ELSE IF t[1] = "+" THEN DecimalValue(Tail(t)) ELSE DecimalValue(t)

\* The positions of the held scopes that start with the prefix and end in
\* an integer.
IdScopes ==
    { i \in 1..Len(HeldScopes) :
        /\ strings_HasPrefix(HeldScopes[i], filterPrefix)
        /\ IsInteger(LastSegment(HeldScopes[i])) }

\* The ids of the scopes at the positions from i on that are in IdScopes,
\* in scope order.
RECURSIVE IdsFrom(_)
IdsFrom(i) ==
    IF i > Len(HeldScopes) THEN <<>>
    ELSE (IF i \in IdScopes THEN << IntegerOf(LastSegment(HeldScopes[i])) >> ELSE <<>>)
             \o IdsFrom(i + 1)

\* C21: Filter returns the allow-all clause only when the user holds a
\* wildcard scope of the prefix for the action in their current
\* organisation; it returns an error exactly when the sqlID is not in the
\* accept list or the permissions are missing, and the clause is then the
\* deny clause; and without an error, a wildcard or a scope with an id it
\* returns the deny clause.
C21_FilterRestrictsView ==
    filterResult # <<>> =>
        LET r == filterResult[1]
            missing == \/ filterUser.Permissions = <<>>
                       \/ ~\E e \in filterUser.Permissions[1] : e[1] = filterUser.OrgId
        IN  /\ r.query = allowAllQuery =>
                  /\ r.err = ""
                  /\ \E i \in 1..Len(HeldScopes) : HeldScopes[i] \in WildcardScopes
            /\ r.err # "" <=> (filterSqlID \notin sqlIDAcceptList \/ missing)
            /\ r.err # "" => r.query = denyQuery /\ r.args = <<>>
            /\ (r.err = "" /\ IdScopes = {}
                   /\ ~\E i \in 1..Len(HeldScopes) : HeldScopes[i] \in WildcardScopes)
                  => r.query = denyQuery /\ r.args = <<>>

\* C21 witness: Filter has returned the allow-all clause to a user whose
\* wildcard follows a scope with an id.
C21_Witness ==
    /\ filterResult # <<>>
    /\ filterResult[1].query = allowAllQuery
    /\ Len(HeldScopes) = 2
    /\ 1 \in IdScopes
    /\ HeldScopes[2] \in WildcardScopes

\* The number of placeholders of a clause.
Placeholders(query) == Cardinality({ i \in 1..Len(query) : query[i] = "?" })

\* Filter has returned an IN clause.
ReturnedInClause ==
    /\ filterResult # <<>>
    /\ filterResult[1].err = ""
    /\ filterResult[1].query \notin {denyQuery, allowAllQuery}

\* C22: when Filter returns an IN clause, its placeholders are as many as
\* the arguments returned, at least one, and the arguments are the ids of
\* the held scopes that start with the prefix and end in an integer, in
\* scope order; the other scopes contribute no argument.
C22_InClauseArguments ==
    ReturnedInClause =>
        /\ Placeholders(filterResult[1].query) = Len(filterResult[1].args)
        /\ Len(filterResult[1].args) >= 1
        /\ filterResult[1].args = IdsFrom(1)
        /\ Len(filterResult[1].args) = Cardinality(IdScopes)

\* C22 witness: an IN clause of two arguments for a user with three scopes
\* of the prefix, the second of which does not end in an integer.
C22_Witness ==
    /\ ReturnedInClause
    /\ Len(HeldScopes) = 3
    /\ \A i \in 1..3 : strings_HasPrefix(HeldScopes[i], filterPrefix)
    /\ IdScopes = {1, 3}
    /\ Len(filterResult[1].args) = 2

\* The channels makeReceiverAndRoute keeps for the i-th alert: those of the
\* alert and the default ones that exist.
FilteredChannels(i) == (extractChannelIDs(dashAlerts[i]) \cup defaultChannels) \cap allChannels

\* The channel group of the default contact point.
DefaultChannelGroup == defaultChannels \cap allChannels

\* The channel groups the migration has met so far: the default one and
\* those of the migrated rules that name a channel and keep one.
ChannelGroups ==
    { makeKeyForChannelGroup(DefaultChannelGroup) } \cup
    { makeKeyForChannelGroup(FilteredChannels(i)) :
        i \in { k \in MigratedRules :
                  extractChannelIDs(dashAlerts[k]) # {} /\ FilteredChannels(k) # {} } }

\* C23: while the loop of the migration of an organisation with channels
\* runs, a channel group key is ported under one receiver name, the
\* configuration holds exactly one receiver for each channel group met so
\* far, and a rule whose channel set is the default contact point's has no
\* route (so no receiver beyond those); every route of a rule with another
\* channel set names the receiver its group was ported under.
C23_ReceiverReuse ==
    (mpc \in {"loop", "rule"} /\ amConfig # NilPointer) =>
        /\ \A p, q \in portedChannelGroups : p[1] = q[1] => p = q
        /\ { p[1] : p \in portedChannelGroups } = ChannelGroups
        /\ Len(amConfig.Receivers) = Cardinality(ChannelGroups)
        /\ \A i \in MigratedRules :
              LET routes == { k \in 1..Len(RuleRoutes) :
                                RouteMatches(RuleRoutes[k], alertRuleTable[i].Labels) }
              IN  IF extractChannelIDs(dashAlerts[i]) = {}
                     \/ FilteredChannels(i) = {}
                     \/ makeKeyForChannelGroup(FilteredChannels(i))
                           = makeKeyForChannelGroup(DefaultChannelGroup)
                  THEN routes = {}
                  ELSE /\ Cardinality(routes) = 1
                       /\ \A k \in routes :
                             <<makeKeyForChannelGroup(FilteredChannels(i)), RuleRoutes[k].Receiver>>
                                 \in portedChannelGroups

\* C23 witness: two rules of the same channel set, which is not the
\* default one, are routed to one receiver, and a default receiver and that
\* one are all there is.
C23_Witness ==
    /\ mpc = "loop"
    /\ daIdx = 2
    /\ amConfig # NilPointer
    /\ defaultChannels # {}
    /\ FilteredChannels(1) = FilteredChannels(2)
    /\ Len(RuleRoutes) = 2
    /\ RuleRoutes[1].Receiver = RuleRoutes[2].Receiver
    /\ Len(amConfig.Receivers) = 2

\* The receivers of a configuration that bear a name.
ReceiversNamed(config, name) ==
    { k \in 1..Len(config.Receivers) : config.Receivers[k].Name = name }

\* The routes of a configuration: the root route and its child routes.
AllRoutes(config) == <<config.Route>> \o config.Route.Routes

\* C24: in the configuration the migration writes, every route, root or
\* child, names exactly one receiver of the configuration, and the names of
\* the receivers are pairwise distinct.
C24_RoutesNameOneReceiver ==
    writtenAmConfig # <<>> =>
        LET config == writtenAmConfig[1]
        IN  /\ \A k \in 1..Len(AllRoutes(config)) :
                  Cardinality(ReceiversNamed(config, AllRoutes(config)[k].Receiver)) = 1
            /\ \A k, l \in 1..Len(config.Receivers) :
                  config.Receivers[k].Name = config.Receivers[l].Name => k = l

\* The receivers of a configuration that hold a channel, by its name.
ReceiversHolding(config, name) ==
    { k \in 1..Len(config.Receivers) :
        \E n \in 1..Len(config.Receivers[k].GrafanaManagedReceivers) :
            config.Receivers[k].GrafanaManagedReceivers[n].Name = name }

\* The receivers of a configuration made for the unlinked channels.
UnlinkedReceivers(config) == ReceiversNamed(config, <<"autogen-unlinked-channel-recv">>)

\* C25: no receiver of the configuration being built or written holds a
\* hipchat or sensu channel; in the written configuration every other
\* channel of the organisation is in a receiver, and a channel of the
\* receiver of the unlinked channels is in no other receiver (and once in
\* that one).
C25_DiscontinuedNeverPorted ==
    /\ amConfig # NilPointer =>
          \A k \in 1..Len(amConfig.Receivers) :
              \A n \in 1..Len(amConfig.Receivers[k].GrafanaManagedReceivers) :
                  amConfig.Receivers[k].GrafanaManagedReceivers[n].Type \notin {"hipchat", "sensu"}
    /\ writtenAmConfig # <<>> =>
          LET config == writtenAmConfig[1]
          IN  /\ \A k \in 1..Len(config.Receivers) :
                    \A n \in 1..Len(config.Receivers[k].GrafanaManagedReceivers) :
                        config.Receivers[k].GrafanaManagedReceivers[n].Type
                            \notin {"hipchat", "sensu"}
              /\ \A u \in allChannels :
                    NotificationChannels[u].Type \notin {"hipchat", "sensu"}
                        => ReceiversHolding(config, NotificationChannels[u].Name) # {}
              /\ \A k \in UnlinkedReceivers(config) :
                    LET held == config.Receivers[k].GrafanaManagedReceivers
                    IN  \A n \in 1..Len(held) :
                            /\ ReceiversHolding(config, held[n].Name) = {k}
                            /\ \A m \in 1..Len(held) : held[m].Name = held[n].Name => m = n

\* C25 witness: a written configuration of an organisation with
\* discontinued channels, one of them notified by an alert, where a rule's
\* receiver holds one channel and the receiver of the unlinked channels the
\* other.
C25_Witness ==
    /\ writtenAmConfig # <<>>
    /\ \E u \in allChannels : NotificationChannels[u].Type = "hipchat"
    /\ \E i \in 1..Len(dashAlerts) : extractChannelIDs(dashAlerts[i]) = {"c3"}
    /\ \E k \in UnlinkedReceivers(writtenAmConfig[1]) :
          Len(writtenAmConfig[1].Receivers[k].GrafanaManagedReceivers) = 1
    /\ \E k \in 1..Len(writtenAmConfig[1].Receivers) :
          /\ k \notin UnlinkedReceivers(writtenAmConfig[1])
          /\ Len(writtenAmConfig[1].Receivers[k].GrafanaManagedReceivers) = 1

\* C26: Exec never panics, and a turn of the loop that ends Exec while it
\* prepares the folder of a dashboard alert (whatever fails past the
\* alert's condition, the setting of the permissions of a new folder
\* included) ends it with a MigrationError that carries the alert's id.
C26_FolderFailureIsMigrationError ==
    [][ /\ mpc' # "crashed"
        /\ \A p \in Preparations :
              (ExecPrepareFolder(p) /\ p.failing \notin {"none", "transConditions"}
                 /\ mpc' # "rule")
                => (mpc' = "failed" /\ execResult' = MigrationError(dashAlerts[daIdx + 1].Id))
      ]_vars

\* C27: a rule whose dashboard_uid is nil has a nil panel_id; a rule
\* without a dashboard-uid annotation, with or without a panel-id
\* annotation, keeps both columns as they were, nil; and so does every rule
\* of another organisation than the one migrated.
C27_NoPanelIdWithoutDashboardUid ==
    \A id \in 1..Len(panelRules) :
        LET row == panelRules[id]
        IN  /\ row.dashboard_uid = <<>> => row.panel_id = <<>>
            /\ Annotation(row.Annotations, DashboardUIDAnnotation) = <<>>
                  => row.dashboard_uid = <<>> /\ row.panel_id = <<>>
            /\ row.OrgID # panelOrgId => row.dashboard_uid = <<>> /\ row.panel_id = <<>>

\* C27 witness: Exec has returned nil after it set the columns of a rule
\* with both annotations and passed a rule of its organisation with a
\* panel id only, in a table with a rule of another organisation that has
\* both annotations.
C27_Witness ==
    /\ panelPc = "done"
    /\ \E id \in 1..Len(panelRules) :
          /\ panelRules[id].OrgID = panelOrgId
          /\ panelRules[id].dashboard_uid = <<"d1">>
          /\ panelRules[id].panel_id = <<7>>
    /\ \E id \in 1..Len(panelRules) :
          /\ panelRules[id].OrgID = panelOrgId
          /\ Annotation(panelRules[id].Annotations, DashboardUIDAnnotation) = <<>>
          /\ Annotation(panelRules[id].Annotations, PanelIDAnnotation) = << <<"7">> >>
          /\ panelRules[id].panel_id = <<>>
    /\ \E id \in 1..Len(panelRules) :
          /\ panelRules[id].OrgID # panelOrgId
          /\ Annotation(panelRules[id].Annotations, DashboardUIDAnnotation) = <<"d1">>
          /\ panelRules[id].dashboard_uid = <<>>

\* The length of one year from now, in hours: 365 days, or 366 over a leap day.
OneYear == {365 * 24, 366 * 24}

\* The silences made for the Error and NoData alerts of rules that keep state.
KeepStateSilences ==
    { i \in 1..Len(silences) :
        silences[i].Comment \in
            {"Created during migration to unified alerting to silence Error state",
             "Created during migration to unified alerting to silence NoData state"} }

\* C28: every silence made for a paused alert ends and expires one year
\* after it starts, as long after its start as every silence made for the
\* Error or NoData alerts of a rule that keeps its state.
C28_PauseSilenceLastsOneYear ==
    \A k \in PauseSilences :
        /\ silences[k].EndsAt - silences[k].StartsAt \in OneYear
        /\ silences[k].ExpiresAt - silences[k].StartsAt \in OneYear
        /\ \A j \in KeepStateSilences :
              /\ silences[j].EndsAt - silences[j].StartsAt = silences[k].EndsAt - silences[k].StartsAt
              /\ silences[j].ExpiresAt - silences[j].StartsAt = silences[k].ExpiresAt - silences[k].StartsAt

\* C29: for every setting of AlertingMaxAttempts, 0 included, a call of
\* handleRule is never held at a channel: at each of processJob's two sends
\* to cancelChan the buffer has room, the attempt channel holds the one
\* attempt until it is closed, every call that has gone through handleRule
\* and returned has job.Result set, and the job's offset is at least 1.
C29_HandleRuleNeverBlocks ==
    \A c \in Callers :
        /\ jpc[c] \in {"sendCancelFn", "sendResultHandleCancelFn"} => Len(cancelChan[c]) < ChanCap
        /\ attemptChan[c] # NilPointer => Len(attemptChan[c].buf) <= 1
        /\ job[c] # NilPointer => job[c].Offset >= 1
        /\ (jpc[c] = "done" /\ job[c] # NilPointer) => job[c].Result # <<>>

====
